---- MODULE Spec2Model ----
(***************************************************************************)
(* seispy: the batch orchestration shared by the processing stages.        *)
(*                                                                         *)
(* One behaviour is one run of one stage entry function (sort_to,          *)
(* mseed_dir_to_sac, mseed2sac_dir, merge_by_day,                          *)
(* deconvolution_last_subdirs, resample_by_station, download).  The        *)
(* coordinator submits every batch / unit to a ProcessPoolExecutor, the    *)
(* workers run in any interleaving, and the coordinator drains the         *)
(* completed futures in completion order.                                  *)
(*                                                                         *)
(* Files are the numbers 1..n.  What obspy, shutil and the remote service  *)
(* do with a file is an input of the run: fault[f] says at which step the  *)
(* processing of f fails ("ok": it does not fail).  A write that fails     *)
(* leaves a partially written file behind.                                 *)
(*                                                                         *)
(* Spec is the run of a stage.  The helpers of the rose package have their *)
(* own specifications, in which no stage runs and the variable fn holds    *)
(* the call: SpecBatch (batch_generator), SpecLeaf (find_last_subdirs),    *)
(* SpecGlob (glob).  SpecRerun runs one stage twice over a directory of    *)
(* named files.  SpecSacDeconv is one call of sac_deconv, SpecBuild of     *)
(* build_destination_path, SpecJulian of _calculate_julian_dates, and      *)
(* SpecDownload is one worker process of either download implementation.   *)
(* SpecFormat is one call of format_per_event and SpecHead a run of        *)
(* format_head; SpecConvert is the miniSEED conversion of two files,       *)
(* SpecCut the station workers of cut_events_bin, SpecDrift one station of *)
(* the clock-drift correction.                                             *)
(***************************************************************************)
EXTENDS Integers, Sequences, FiniteSets, TLC

\* Bounds of the model.
MaxFiles == 2
MaxDirs == 2
MaxBatchSize == 2
MaxItems == 4
MaxNodes == 4

VARIABLES
    cfg,        \* the arguments of the entry function and the environment
    targets,    \* pather.glob(...): the files of a batched stage, in order
    subdirs,    \* the units of a per-directory stage, each with the files its pattern matches
    fault,      \* fault[f]: where the processing of file f fails
    futures,    \* the submitted tasks, in submission order
    src,        \* src[f]: state of source file f on disk
    out,        \* out[f]: state of the destination file derived from f
    attempts,   \* attempts[f]: how often f was handed to the per-file transform
    pc,         \* position of the coordinator in the entry function
    drained,    \* the futures as_completed has yielded, in that order
    summary,    \* the coordinator's aggregate (postfix / post / errs / progress)
    artifact,   \* every write of errors.txt, in order
    cleanMsg,   \* the "NO errors" message was printed
    exc,        \* the exception that left the entry function, or NoExc
    fn          \* the frame of a rose helper called on its own: arguments, locals, result

vars == <<cfg, targets, subdirs, fault, futures, src, out, attempts, pc, drained,
          summary, artifact, cleanMsg, exc, fn>>

----------------------------------------------------------------------------
\* Helpers

Min(a, b) == IF a < b THEN a ELSE b

Range(s) == {s[i] : i \in DOMAIN s}

RECURSIVE SumOver(_, _)
SumOver(f, S) ==
    IF S = {} THEN 0
    ELSE LET x == CHOOSE y \in S : TRUE IN f[x] + SumOver(f, S \ {x})

\* Python's items[lo:hi] (0-based, half open, clipped to the list).
Slice(items, lo, hi) == SubSeq(items, lo + 1, Min(hi, Len(items)))

\* The first index of s whose element satisfies the faults in K, 0 if none.
FirstFault(s, K) ==
    IF \E i \in DOMAIN s : fault[s[i]] \in K
    THEN CHOOSE i \in DOMAIN s :
            /\ fault[s[i]] \in K
            /\ \A j \in 1..(i - 1) : fault[s[j]] \notin K
    ELSE 0

NoExc == [kind |-> "none"]

\* No helper is being called on its own.
NoCall == [op |-> "none"]

\* A diagnostic: the item it names and the cause (the exception's message).
Diag(kind, id, cause) == [item |-> <<kind, id>>, cause |-> cause]

----------------------------------------------------------------------------
\* Stages and their configuration

BatchedStages == {"sort_to", "mseed_dir_to_sac", "mseed2sac_dir"}
DirStages == {"merge_by_day", "deconvolution_last_subdirs", "resample_by_station"}
Stages == BatchedStages \cup DirStages \cup {"download"}

Faults == {"ok", "read", "transform", "write"}
DownloadFaults == {"ok", "skipped", "nodata", "read", "write"}

FaultsOf(stage) == IF stage = "download" THEN DownloadFaults ELSE Faults

Configs(stage) ==
    IF stage \in BatchedStages
    THEN {[stage |-> stage, method |-> "none", remove_src |-> FALSE, tool |-> TRUE,
           batch_size |-> b, root |-> "dir"] : b \in 1..MaxBatchSize}
    ELSE IF stage = "merge_by_day"
    THEN {[stage |-> stage, method |-> "none", remove_src |-> r, tool |-> TRUE,
           batch_size |-> 1, root |-> "dir"] : r \in BOOLEAN}
    ELSE IF stage = "download"
    THEN {[stage |-> stage, method |-> "none", remove_src |-> FALSE, tool |-> TRUE,
           batch_size |-> 1, root |-> "dir"]}
    ELSE {[stage |-> stage, method |-> "obspy", remove_src |-> r, tool |-> TRUE,
           batch_size |-> 1, root |-> "dir"] : r \in BOOLEAN}
         \cup
         {[stage |-> stage, method |-> "sac", remove_src |-> r, tool |-> t,
           batch_size |-> 1, root |-> "dir"] : r \in BOOLEAN, t \in BOOLEAN}
         \cup
         {[stage |-> stage, method |-> "other", remove_src |-> r, tool |-> TRUE,
           batch_size |-> 1, root |-> "dir"] : r \in BOOLEAN}

\* The ways n files lie in at most MaxDirs directories: directory j holds the
\* files c[j-1]+1 .. c[j] (possibly none).
Layouts(n) ==
    (IF n = 0 THEN {<<>>} ELSE {}) \cup
    UNION {
        { [j \in 1..k |-> [i \in 1..(c[j] - (IF j = 1 THEN 0 ELSE c[j - 1])) |->
                              (IF j = 1 THEN 0 ELSE c[j - 1]) + i]] :
          c \in { d \in [1..k -> 0..n] :
                    /\ d[k] = n
                    /\ \A j \in 1..(k - 1) : d[j] <= d[j + 1] } }
        : k \in 1..MaxDirs }

----------------------------------------------------------------------------
\* Discovery: rose.pather over a directory tree.
\*
\* A tree is the part of the file system at and below the path handed to the
\* helper.  Node 1 is that path; it is a directory, a file, or missing.  Node
\* i > 1 is an entry of the directory parent[i] < i.  The entries of a
\* directory are listed in the order of their numbers.

Nm(stem, ext) == [stem |-> stem, ext |-> ext]

\* The two names an entry may have: of a directory, of a file.
NameOf(kind, b) ==
    IF kind = "dir" THEN (IF b = 1 THEN Nm("d1", "") ELSE Nm("d2", ""))
    ELSE (IF b = 1 THEN Nm("x", "sac") ELSE Nm("y", "sac"))

TreesOf(n) ==
    { t \in { [kind |-> k, parent |-> p, name |-> [i \in 1..n |-> NameOf(k[i], b[i])]] :
                k \in {kk \in [1..n -> {"dir", "file"}] : kk[1] = "dir"},
                p \in {pp \in [1..n -> 0..(n - 1)] :
                         /\ pp[1] = 0
                         /\ \A i \in 2..n : pp[i] \in 1..(i - 1)},
                b \in [1..n -> 1..2] } :
        /\ \A i \in 2..n : t.kind[t.parent[i]] = "dir"
        /\ \A i, j \in 2..n :
              (i # j /\ t.parent[i] = t.parent[j]) => t.name[i] # t.name[j] }

MissingRoot == [kind |-> <<"missing">>, parent |-> <<0>>, name |-> <<Nm("d1", "")>>]
FileRoot == [kind |-> <<"file">>, parent |-> <<0>>, name |-> <<Nm("x", "sac")>>]

Trees == UNION {TreesOf(n) : n \in 1..MaxNodes} \cup {MissingRoot, FileRoot}

Nodes(t) == 1..Len(t.kind)

\* path.is_dir()
is_dir(t, path) == t.kind[path] = "dir"

\* path.iterdir(), for a directory
iterdir(t, path) == SelectSeq([i \in Nodes(t) |-> i], LAMBDA c : t.parent[c] = path)

\* [child for child in path.iterdir()]
child_entries(t, path) == iterdir(t, path)

\* [child for child in path.iterdir() if child.is_dir()]
child_dirs(t, path) == SelectSeq(iterdir(t, path), LAMBDA c : is_dir(t, c))

\* find_last_subdirs with the test of the argument left out, on a listing that
\* is empty for a path that is no directory
RECURSIVE find_last_subdirs_nocheck(_, _)
find_last_subdirs_nocheck(t, path) ==
    LET subs == child_dirs(t, path)
        extend[k \in 0..Len(subs)] ==
            IF k = 0 THEN <<>>
            ELSE extend[k - 1] \o find_last_subdirs_nocheck(t, subs[k])
    IN IF subs = <<>> THEN <<path>> ELSE extend[Len(subs)]

\* rose.pather.find_last_subdirs, as a function of the tree
RECURSIVE find_last_subdirs(_, _)
find_last_subdirs(t, path) ==
    IF ~is_dir(t, path) THEN <<>>
    ELSE LET subs == child_dirs(t, path)
             extend[k \in 0..Len(subs)] ==
                 IF k = 0 THEN <<>>
                 ELSE extend[k - 1] \o find_last_subdirs(t, subs[k])
         IN IF subs = <<>> THEN <<path>> ELSE extend[Len(subs)]

\* The nodes from the root down to x.
RECURSIVE PathTo(_, _)
PathTo(t, x) == IF t.parent[x] = 0 THEN <<x>> ELSE Append(PathTo(t, t.parent[x]), x)

\* x lies at or below d.
Below(t, d, x) == d \in Range(PathTo(t, x))

\* "*.sac", "x.*" and "*": a pattern without extension has no dot.
Patterns == {Nm("*", "sac"), Nm("x", "*"), Nm("*", "")}

\* The lists of at most two different patterns.
PatternLists ==
    {<<>>} \cup {<<p>> : p \in Patterns}
           \cup {s \in {<<p, q>> : p \in Patterns, q \in Patterns} : s[1] # s[2]}

\* fnmatch of a final path segment against a pattern: "*" matches any run of
\* characters, the dot matches a dot.
fnmatch(name, pattern) ==
    IF pattern.ext = ""
    THEN pattern.stem = "*" \/ (name.ext = "" /\ name.stem = pattern.stem)
    ELSE /\ name.ext # ""
         /\ pattern.stem = "*" \/ pattern.stem = name.stem
         /\ pattern.ext = "*" \/ pattern.ext = name.ext

\* target.parts: the segments of the path, those of dir included
parts(t, x) == {t.name[a] : a \in Range(PathTo(t, x))}

\* list(dir.glob(pattern)) / list(dir.rglob(pattern)): the entries of dir, or
\* the entries at any depth below dir, whose name matches; nothing if dir is
\* no directory.
path_glob(t, dir, method, pattern) ==
    IF ~is_dir(t, dir) THEN <<>>
    ELSE SelectSeq([i \in Nodes(t) |-> i],
                   LAMBDA x : /\ x # dir
                              /\ IF method = "glob" THEN t.parent[x] = dir
                                 ELSE Below(t, dir, x)
                              /\ fnmatch(t.name[x], pattern))

glob(t, dir, method, patterns, exclude_parts, include_parts) ==
    LET collected[k \in 0..Len(patterns)] ==          \* targets += list(...)
            IF k = 0 THEN <<>>
            ELSE collected[k - 1] \o path_glob(t, dir, method, patterns[k])
        targets0 == IF method \in {"glob", "rglob"} THEN collected[Len(patterns)]
                    ELSE <<>>
        excluded[k \in 0..Len(exclude_parts)] ==
            IF k = 0 THEN targets0
            ELSE SelectSeq(excluded[k - 1], LAMBDA x : exclude_parts[k] \notin parts(t, x))
        included[k \in 0..Len(include_parts)] ==
            IF k = 0 THEN excluded[Len(exclude_parts)]
            ELSE SelectSeq(included[k - 1], LAMBDA x : include_parts[k] \in parts(t, x))
    IN included[Len(include_parts)]

----------------------------------------------------------------------------
\* Batching and submission

\* len(range(0, n, step)) for n >= 0: with a negative step the range is empty.
\* (step = 0 makes range() raise ValueError: see batch_next.)
range_len(n, step) == IF step > 0 THEN (n + step - 1) \div step ELSE 0

batch_generator_overlap(items, batch_size) ==
    [k \in 1..range_len(Len(items), batch_size) |->
        Slice(items, (k - 1) * batch_size, (k - 1) * batch_size + batch_size + 1)]

\* for i in range(0, len(items), batch_size + 1): items[i : i + batch_size]
batch_generator_skip(items, batch_size) ==
    [k \in 1..range_len(Len(items), batch_size + 1) |->
        Slice(items, (k - 1) * (batch_size + 1), (k - 1) * (batch_size + 1) + batch_size)]

\* for i in range(0, len(items) + 1, batch_size): items[i : i + batch_size]
batch_generator_trailing(items, batch_size) ==
    [k \in 1..range_len(Len(items) + 1, batch_size) |->
        Slice(items, (k - 1) * batch_size, (k - 1) * batch_size + batch_size)]

\* rose.batch_generator: for i in range(0, len(items), batch_size): items[i:i+batch_size]
batch_generator(items, batch_size) ==
    [k \in 1..range_len(Len(items), batch_size) |->
        Slice(items, (k - 1) * batch_size, (k - 1) * batch_size + batch_size)]

\* mseed_dir_to_sac slices inline: targets[i : i + nbach] for i in range(0, ltargets, nbach)
nbach_slices(items, nbach) ==
    [k \in 1..((Len(items) + nbach - 1) \div nbach) |->
        Slice(items, (k - 1) * nbach, (k - 1) * nbach + nbach)]

\* The argument lists of the executor.submit calls of the entry function, in order.
Units ==
    IF cfg.stage = "mseed_dir_to_sac" THEN nbach_slices(targets, cfg.batch_size)
    ELSE IF cfg.stage \in BatchedStages THEN batch_generator(targets, cfg.batch_size)
    ELSE subdirs

\* The local variables a worker function starts with.
InitAcc(stage) ==
    CASE stage = "mseed_dir_to_sac" -> <<>>                   \* errs = []
      [] stage = "mseed2sac_dir" -> 0                          \* success_count = 0
      [] stage = "deconvolution_last_subdirs" -> "success"     \* flag = "success"
      [] stage = "resample_by_station" -> <<0, 0>>             \* total, failed = 0, 0
      [] OTHER -> <<>>

NewFuture(k, files) ==
    [unit |-> k, files |-> files, st |-> "pending", i |-> 1, ph |-> "run",
     acc |-> InitAcc(cfg.stage), res |-> [raised |-> FALSE, val |-> <<>>]]

EmptySummary(stage) ==
    [postfix |-> CASE stage = "deconvolution_last_subdirs" ->
                        [k \in {"success", "failed"} |-> 0]
                   [] stage = "download" ->
                        [k \in {"success", "failed", "skipped", "nodata"} |-> 0]
                   [] OTHER -> [k \in {} |-> 0],
     total |-> 0, failed |-> 0, progress |-> 0, errs |-> <<>>]

\* What the entry function of a stage discovers under the tree t: the files
\* for pather.glob(src_path, "rglob", [pattern]), the leaf directories for
\* pather.find_last_subdirs(src_path), the stations for src_path.glob("*/").
Discovered(stage, t) ==
    CASE stage \in BatchedStages -> glob(t, 1, "rglob", <<Nm("*", "sac")>>, <<>>, <<>>)
      [] stage \in {"merge_by_day", "deconvolution_last_subdirs"} -> find_last_subdirs(t, 1)
      [] stage = "resample_by_station" -> path_glob(t, 1, "glob", Nm("*", ""))
      [] OTHER -> <<>>

\* The source root of a stage exists or not; the download has none.  Under a
\* root that does not exist there is no file, and the units are what discovery
\* returns for it.
Roots(stage, n) == IF stage # "download" /\ n = 0 THEN {"dir", "missing"} ELSE {"dir"}

Init ==
    \E stage \in Stages, n \in 0..MaxFiles :
      \E c \in Configs(stage), flt \in [1..n -> FaultsOf(stage)], lay \in Layouts(n),
         root \in Roots(stage, n) :
        /\ cfg = [c EXCEPT !.root = root]
        /\ fault = flt
        /\ targets = IF stage \notin BatchedStages THEN <<>>
                     ELSE IF root = "missing" THEN Discovered(stage, MissingRoot)
                     ELSE [i \in 1..n |-> i]
        /\ subdirs = IF stage \in DirStages
                     THEN IF root = "missing"
                          THEN [k \in DOMAIN Discovered(stage, MissingRoot) |-> <<>>]
                          ELSE lay
                     ELSE IF stage = "download" THEN [i \in 1..n |-> <<i>>]
                     ELSE <<>>
        /\ futures = <<>>
        /\ src = [f \in 1..n |-> "present"]
        /\ out = [f \in 1..n |-> "absent"]
        /\ attempts = [f \in 1..n |-> 0]
        /\ pc = "submit"
        /\ drained = <<>>
        /\ summary = EmptySummary(stage)
        /\ artifact = <<>>
        /\ cleanMsg = FALSE
        /\ exc = NoExc
        /\ fn = NoCall

\* executor.submit(worker, unit, ...) inside the set comprehension: one call per
\* element of Units, all of them before the first completion is drained.
\* deconv_by_method(method) / _resample_method(method) with a method that is
\* neither "obspy" nor "sac": raise ValueError(f"Unknown method: {method}")
UnknownMethod ==
    /\ cfg.stage \in {"deconvolution_last_subdirs", "resample_by_station"}
    /\ cfg.method \notin {"obspy", "sac"}

\* The worker function is looked up inside the set comprehension, as the first
\* argument of executor.submit: for the first unit the lookup raises, before
\* anything is submitted, and the exception leaves the entry function.
method_error ==
    /\ pc = "submit"
    /\ UnknownMethod
    /\ Len(futures) < Len(Units)
    /\ pc' = "raised"
    /\ exc' = [kind |-> "ValueError", diag |-> Diag("config", "method", "ValueError")]
    /\ UNCHANGED <<fn, cfg, targets, subdirs, fault, futures, src, out, attempts, drained,
                   summary, artifact, cleanMsg>>

Submit ==
    /\ pc = "submit"
    /\ ~UnknownMethod
    /\ Len(futures) < Len(Units)
    /\ futures' = Append(futures, NewFuture(Len(futures) + 1, Units[Len(futures) + 1]))
    /\ UNCHANGED <<fn, cfg, targets, subdirs, fault, src, out, attempts, pc, drained,
                   summary, artifact, cleanMsg, exc>>

\* The comprehension is exhausted: the as_completed loop starts.
StartDrain ==
    /\ pc = "submit"
    /\ Len(futures) = Len(Units)
    /\ pc' = "drain"
    /\ UNCHANGED <<fn, cfg, targets, subdirs, fault, futures, src, out, attempts, drained,
                   summary, artifact, cleanMsg, exc>>

----------------------------------------------------------------------------
\* Workers.  Running(t): future t has not returned yet.

Running(t) == t \in DOMAIN futures /\ futures[t].st = "pending"

Return(fu, val) == [fu EXCEPT !.st = "done", !.res = [raised |-> FALSE, val |-> val]]
Raise(fu, diag) == [fu EXCEPT !.st = "done", !.res = [raised |-> TRUE, val |-> diag]]

\* What a step that writes the output of f leaves at the destination.
Written(f) == IF fault[f] = "ok" THEN "complete"
              ELSE IF fault[f] = "write" THEN "partial"
              ELSE out[f]

\* sort._copy_targets: split the name, mkdir, shutil.copy; no try/except.
copy_targets(t) ==
    /\ cfg.stage = "sort_to"
    /\ Running(t)
    /\ LET fu == futures[t] IN
        IF fu.i > Len(fu.files)
        THEN /\ futures' = [futures EXCEPT ![t] = Return(fu, <<>>)]
             /\ UNCHANGED <<out, attempts>>
        ELSE LET f == fu.files[fu.i] IN
             /\ attempts' = [attempts EXCEPT ![f] = @ + 1]
             /\ out' = [out EXCEPT ![f] = Written(f)]
             /\ futures' = [futures EXCEPT ![t] =
                    IF fault[f] = "ok" THEN [fu EXCEPT !.i = @ + 1]
                    ELSE Raise(fu, Diag("file", f, fault[f]))]
    /\ UNCHANGED <<fn, cfg, targets, subdirs, fault, src, pc, drained, summary, artifact,
                   cleanMsg, exc>>

\* mseed2sac._mseeds_to_sac: try _mseed2sac(target) except: errs.append(f"Errors in {target}...")
mseeds_to_sac(t) ==
    /\ cfg.stage = "mseed_dir_to_sac"
    /\ Running(t)
    /\ LET fu == futures[t] IN
        IF fu.i > Len(fu.files)
        THEN /\ futures' = [futures EXCEPT ![t] = Return(fu, fu.acc)]
             /\ UNCHANGED <<out, attempts>>
        ELSE LET f == fu.files[fu.i] IN
             /\ attempts' = [attempts EXCEPT ![f] = @ + 1]
             /\ out' = [out EXCEPT ![f] = Written(f)]
             /\ futures' = [futures EXCEPT ![t] =
                    [fu EXCEPT !.i = @ + 1,
                               !.acc = IF fault[f] = "ok" THEN @
                                       ELSE Append(@, Diag("file", f, fault[f]))]]
    /\ UNCHANGED <<fn, cfg, targets, subdirs, fault, src, pc, drained, summary, artifact,
                   cleanMsg, exc>>

\* collate.mseed2sac.process_batch: try mseed2sac(path); success_count += 1 except: log
process_batch(t) ==
    /\ cfg.stage = "mseed2sac_dir"
    /\ Running(t)
    /\ LET fu == futures[t] IN
        IF fu.i > Len(fu.files)
        THEN /\ futures' = [futures EXCEPT ![t] = Return(fu, fu.acc)]
             /\ UNCHANGED <<out, attempts>>
        ELSE LET f == fu.files[fu.i] IN
             /\ attempts' = [attempts EXCEPT ![f] = @ + 1]
             /\ out' = [out EXCEPT ![f] = Written(f)]
             /\ futures' = [futures EXCEPT ![t] =
                    [fu EXCEPT !.i = @ + 1,
                               !.acc = IF fault[f] = "ok" THEN @ + 1 ELSE @]]
    /\ UNCHANGED <<fn, cfg, targets, subdirs, fault, src, pc, drained, summary, artifact,
                   cleanMsg, exc>>

\* collate.merge._merge_targets.  The stream of a directory has one trace per
\* matched file; the traces are written in order, then the sources are unlinked.
merge_targets(t) ==
    /\ cfg.stage = "merge_by_day"
    /\ Running(t)
    /\ LET fu == futures[t]
           r == FirstFault(fu.files, {"read"})
           x == FirstFault(fu.files, {"transform"})
       IN
        CASE fu.ph = "run" ->
               \* try: read every file, st.sort(), st.merge(), sac.stem.split(".")
               /\ attempts' = [f \in DOMAIN attempts |->
                     IF \E j \in 1..(IF r = 0 THEN Len(fu.files) ELSE r) : fu.files[j] = f
                     THEN attempts[f] + 1 ELSE attempts[f]]
               /\ futures' = [futures EXCEPT ![t] =
                     IF r # 0 THEN Return(fu, <<Diag("dir", fu.unit, "read")>>)
                     ELSE IF x # 0 THEN Return(fu, <<Diag("dir", fu.unit, "transform")>>)
                     ELSE IF fu.files = <<>>
                          \* the loop variable sac is unbound: NameError, caught
                          THEN Return(fu, <<Diag("dir", fu.unit, "NameError")>>)
                     ELSE [fu EXCEPT !.ph = "write", !.i = 1]]
               /\ UNCHANGED <<src, out>>
          [] fu.ph = "write" ->
               LET f == fu.files[fu.i] IN
               /\ out' = [out EXCEPT ![f] = Written(f)]
               /\ futures' = [futures EXCEPT ![t] =
                     IF fault[f] # "ok" THEN Return(fu, <<Diag("dir", fu.unit, fault[f])>>)
                     ELSE IF fu.i < Len(fu.files) THEN [fu EXCEPT !.i = @ + 1]
                     ELSE IF cfg.remove_src THEN [fu EXCEPT !.ph = "unlink", !.i = 1]
                     ELSE Return(fu, <<>>)]
               /\ UNCHANGED <<src, attempts>>
          [] fu.ph = "unlink" ->
               LET f == fu.files[fu.i] IN
               /\ src' = [src EXCEPT ![f] = "removed"]
               /\ futures' = [futures EXCEPT ![t] =
                     IF fu.i < Len(fu.files) THEN [fu EXCEPT !.i = @ + 1]
                     ELSE Return(fu, <<>>)]
               /\ UNCHANGED <<out, attempts>>
    /\ UNCHANGED <<fn, cfg, targets, subdirs, fault, pc, drained, summary, artifact,
                   cleanMsg, exc>>

ShouldUnlinkInFinally(f) == cfg.remove_src

\* "if remove_src: target.unlink()" stands inside the try block after st.write:
\* it is reached only when read, transform and write have returned.
ShouldUnlink(f) == cfg.remove_src /\ fault[f] = "ok"

\* What the loop does to the worker's local result for every file:
\* obspy_resample_by_station counts it (total += 1), obspy_deconv does nothing.
onfile(a) ==
    IF cfg.stage = "resample_by_station" THEN <<a[1] + 1, a[2]>> ELSE a

\* What the except clause does to it: failed += 1, resp. flag = "failed".
onfail(a) ==
    IF cfg.stage = "resample_by_station" THEN <<a[1], a[2] + 1>> ELSE "failed"

\* A worker with the try block around the whole loop: the first file that
\* raises ends the unit.
ObspyPerFileAbort(t) ==
    LET fu == futures[t] IN
    CASE fu.ph = "run" /\ fu.i > Len(fu.files) ->
           /\ futures' = [futures EXCEPT ![t] = Return(fu, fu.acc)]
           /\ UNCHANGED <<src, out, attempts>>
      [] fu.ph = "run" /\ fu.i <= Len(fu.files) ->
           LET f == fu.files[fu.i] IN
           /\ attempts' = [attempts EXCEPT ![f] = @ + 1]
           /\ out' = [out EXCEPT ![f] = Written(f)]
           /\ futures' = [futures EXCEPT ![t] =
                 IF fault[f] # "ok" THEN Return(fu, onfail(onfile(fu.acc)))
                 ELSE IF ShouldUnlink(f) THEN [fu EXCEPT !.ph = "unlink", !.acc = onfile(@)]
                 ELSE [fu EXCEPT !.i = @ + 1, !.acc = onfile(@)]]
           /\ UNCHANGED src
      [] fu.ph = "unlink" ->
           LET f == fu.files[fu.i] IN
           /\ src' = [src EXCEPT ![f] = "removed"]
           /\ futures' = [futures EXCEPT ![t] = [fu EXCEPT !.ph = "run", !.i = @ + 1]]
           /\ UNCHANGED <<out, attempts>>

\* The per-file body shared by obspy_deconv and obspy_resample_by_station:
\* try: read, transform, write dest, (remove_src) target.unlink() except: log.
ObspyPerFile(t) ==
    LET fu == futures[t] IN
    CASE fu.ph = "run" /\ fu.i > Len(fu.files) ->
           /\ futures' = [futures EXCEPT ![t] = Return(fu, fu.acc)]
           /\ UNCHANGED <<src, out, attempts>>
      [] fu.ph = "run" /\ fu.i <= Len(fu.files) ->
           LET f == fu.files[fu.i] IN
           /\ attempts' = [attempts EXCEPT ![f] = @ + 1]
           /\ out' = [out EXCEPT ![f] = Written(f)]
           /\ futures' = [futures EXCEPT ![t] =
                 LET a == IF fault[f] # "ok" THEN onfail(onfile(fu.acc))
                          ELSE onfile(fu.acc)
                 IN IF ShouldUnlink(f) THEN [fu EXCEPT !.ph = "unlink", !.acc = a]
                    ELSE [fu EXCEPT !.i = @ + 1, !.acc = a]]
           /\ UNCHANGED src
      [] fu.ph = "unlink" ->
           LET f == fu.files[fu.i] IN
           /\ src' = [src EXCEPT ![f] = "removed"]
           /\ futures' = [futures EXCEPT ![t] = [fu EXCEPT !.ph = "run", !.i = @ + 1]]
           /\ UNCHANGED <<out, attempts>>

\* response.remove_response.obspy_deconv: flag = "failed" in the except clause.
obspy_deconv(t) ==
    /\ cfg.stage = "deconvolution_last_subdirs"
    /\ cfg.method = "obspy"
    /\ Running(t)
    /\ ObspyPerFile(t)
    /\ UNCHANGED <<fn, cfg, targets, subdirs, fault, pc, drained, summary, artifact,
                   cleanMsg, exc>>

\* resample.obspy_resample_by_station: total += 1 per file, failed += 1 in the except clause.
obspy_resample_by_station(t) ==
    /\ cfg.stage = "resample_by_station"
    /\ cfg.method = "obspy"
    /\ Running(t)
    /\ ObspyPerFile(t)
    /\ UNCHANGED <<fn, cfg, targets, subdirs, fault, pc, drained, summary, artifact,
                   cleanMsg, exc>>

\* What one run of the sac tool over the files of a unit leaves on disk: with
\* remove_src it writes over the source ("w over"), else it writes the destination.
\* The tool's own failures are not reported to the caller.
SacRun(files, S, O) ==
    [src |-> [f \in DOMAIN S |->
                IF cfg.remove_src /\ f \in Range(files) /\ fault[f] \in {"ok", "write"}
                THEN (IF fault[f] = "ok" THEN "overwritten" ELSE "partial")
                ELSE S[f]],
     out |-> [f \in DOMAIN O |->
                IF ~cfg.remove_src /\ f \in Range(files) THEN Written(f) ELSE O[f]]]

\* A sac worker that reports the files the tool could not process.
SacReturnChecked(files) ==
    LET bad == {i \in DOMAIN files : fault[files[i]] # "ok"}
    IN IF cfg.stage = "resample_by_station" THEN <<Len(files), Cardinality(bad)>>
       ELSE IF bad # {} THEN "failed" ELSE "success"

\* What a sac worker returns: sac_deconv "success", sac_resample_by_station (total, 0).
SacReturn(files) ==
    IF cfg.stage = "resample_by_station" THEN <<Len(files), 0>> ELSE "success"

\* sac_deconv / sac_resample_by_station: build the command text, then
\* subprocess.Popen(["sac"]).communicate(cmd); Popen raises FileNotFoundError when
\* there is no sac executable.
SacWorker(t) ==
    LET fu == futures[t]
        run == SacRun(fu.files, src, out)
    IN
    IF ~cfg.tool
    THEN /\ futures' = [futures EXCEPT ![t] =
                Raise(fu, Diag("unit", fu.unit, "FileNotFoundError"))]
         /\ UNCHANGED <<src, out, attempts>>
    ELSE /\ futures' = [futures EXCEPT ![t] = Return(fu, SacReturn(fu.files))]
         /\ src' = run.src
         /\ out' = run.out
         /\ attempts' = [f \in DOMAIN attempts |->
                IF f \in Range(fu.files) THEN attempts[f] + 1 ELSE attempts[f]]

sac_deconv(t) ==
    /\ cfg.stage = "deconvolution_last_subdirs"
    /\ cfg.method = "sac"
    /\ Running(t)
    /\ SacWorker(t)
    /\ UNCHANGED <<fn, cfg, targets, subdirs, fault, pc, drained, summary, artifact,
                   cleanMsg, exc>>

sac_resample_by_station(t) ==
    /\ cfg.stage = "resample_by_station"
    /\ cfg.method = "sac"
    /\ Running(t)
    /\ SacWorker(t)
    /\ UNCHANGED <<fn, cfg, targets, subdirs, fault, pc, drained, summary, artifact,
                   cleanMsg, exc>>

\* script/get_wave.download_worker: one station-day.
DownloadResult(flt) ==
    CASE flt = "skipped" -> "skipped"      \* dest_dir exists with exactly 3 entries
      [] flt = "nodata" -> "nodata"        \* FDSNNoDataException
      [] flt = "ok" -> "success"
      [] OTHER -> "failed"                 \* any other exception

download_worker(t) ==
    /\ cfg.stage = "download"
    /\ Running(t)
    /\ LET fu == futures[t]
           f == fu.files[1]
       IN
        /\ futures' = [futures EXCEPT ![t] = Return(fu, DownloadResult(fault[f]))]
        /\ attempts' = [attempts EXCEPT ![f] = IF fault[f] = "skipped" THEN @ ELSE @ + 1]
        /\ out' = [out EXCEPT ![f] = Written(f)]
    /\ UNCHANGED <<fn, cfg, targets, subdirs, fault, src, pc, drained, summary, artifact,
                   cleanMsg, exc>>

----------------------------------------------------------------------------
\* The coordinator: the as_completed loop and what follows the pool

PostfixStages == {"deconvolution_last_subdirs", "download"}

record_overwrite(s, val) ==
    CASE cfg.stage = "mseed_dir_to_sac" ->
           IF val # <<>> THEN [s EXCEPT !.errs = val] ELSE s
      [] cfg.stage = "merge_by_day" ->
           IF val # <<>> THEN [s EXCEPT !.errs = <<val[1]>>] ELSE s
      [] cfg.stage = "mseed2sac_dir" ->
           [s EXCEPT !.progress = val]
      [] cfg.stage \in {"deconvolution_last_subdirs", "download"} ->
           [s EXCEPT !.postfix[val] = 1]
      [] cfg.stage = "resample_by_station" ->
           [s EXCEPT !.total = val[1], !.failed = val[2]]
      [] OTHER -> s

\* The body of the as_completed loop after future.result() has returned val.
record(s, val) ==
    CASE cfg.stage = "mseed_dir_to_sac" ->                 \* if future: errs += future
           IF val # <<>> THEN [s EXCEPT !.errs = @ \o val] ELSE s
      [] cfg.stage = "merge_by_day" ->                      \* if future: errs.append(future)
           IF val # <<>> THEN [s EXCEPT !.errs = Append(@, val[1])] ELSE s
      [] cfg.stage = "mseed2sac_dir" ->                     \* progress.update(processed)
           [s EXCEPT !.progress = @ + val]
      [] cfg.stage \in PostfixStages ->                     \* postfix[result] += 1
           [s EXCEPT !.postfix[val] = @ + 1]
      [] cfg.stage = "resample_by_station" ->               \* post["total"] += ..; post["failed"] += ..
           [s EXCEPT !.total = @ + val[1], !.failed = @ + val[2]]
      [] OTHER -> s                                         \* sort_to: future.result()

\* postfix[result] with a result that is no key of postfix
KeyError(s, val) == cfg.stage \in PostfixStages /\ val \notin DOMAIN s.postfix

\* One iteration of "for future in as_completed(futures)": any completed future
\* not yet yielded.  future.result() re-raises what the worker raised; no entry
\* function modelled here catches it, so it leaves the with block.
Drain(t) ==
    /\ pc = "drain"
    /\ t \in DOMAIN futures
    /\ futures[t].st = "done"
    /\ t \notin Range(drained)
    /\ drained' = Append(drained, t)
    /\ LET res == futures[t].res IN
        IF res.raised
        THEN /\ pc' = "abort"
             /\ exc' = [kind |-> "worker", diag |-> res.val]
             /\ UNCHANGED summary
        ELSE IF KeyError(summary, res.val)
        THEN /\ pc' = "abort"
             /\ exc' = [kind |-> "KeyError", diag |-> Diag("unit", futures[t].unit, "KeyError")]
             /\ UNCHANGED summary
        ELSE /\ summary' = record(summary, res.val)
             /\ UNCHANGED <<pc, exc>>
    /\ UNCHANGED <<fn, cfg, targets, subdirs, fault, futures, src, out, attempts, artifact,
                   cleanMsg>>

\* as_completed is exhausted and the with block is left normally.
ExitPool ==
    /\ pc = "drain"
    /\ Len(drained) = Len(futures)
    /\ pc' = "final"
    /\ UNCHANGED <<fn, cfg, targets, subdirs, fault, futures, src, out, attempts, drained,
                   summary, artifact, cleanMsg, exc>>

\* An exception leaves the with block: ProcessPoolExecutor.__exit__ is
\* shutdown(wait=True), which returns when every submitted task has run.
AbortPool ==
    /\ pc = "abort"
    /\ \A t \in DOMAIN futures : futures[t].st = "done"
    /\ pc' = "raised"
    /\ UNCHANGED <<fn, cfg, targets, subdirs, fault, futures, src, out, attempts, drained,
                   summary, artifact, cleanMsg, exc>>

\* rose.log.write_errors: open(errs_txt, "w") and write every diagnostic.
write_errors(art, errs) == Append(art, errs)

FinishAlwaysWrites ==
    /\ pc = "final"
    /\ pc' = "returned"
    /\ artifact' = IF cfg.stage \in {"merge_by_day", "mseed_dir_to_sac"}
                   THEN write_errors(artifact, summary.errs)
                   ELSE artifact
    /\ cleanMsg' = CASE cfg.stage = "merge_by_day" -> (summary.errs = <<>>)
                     [] cfg.stage = "mseed_dir_to_sac" -> TRUE
                     [] OTHER -> cleanMsg
    /\ UNCHANGED <<fn, cfg, targets, subdirs, fault, futures, src, out, attempts, drained,
                   summary, exc>>

\* The statements after the with block.
\*   merge_by_day:      if errs: write_errors(errs) else: ic("All Done with NO errors!")
\*   mseed_dir_to_sac:  if errs: write_errors(errs);  ic("All Merged with NO errors!")
Finish ==
    /\ pc = "final"
    /\ pc' = "returned"
    /\ artifact' = IF cfg.stage \in {"merge_by_day", "mseed_dir_to_sac"}
                      /\ summary.errs # <<>>
                   THEN write_errors(artifact, summary.errs)
                   ELSE artifact
    /\ cleanMsg' = CASE cfg.stage = "merge_by_day" -> (summary.errs = <<>>)
                     [] cfg.stage = "mseed_dir_to_sac" -> TRUE
                     [] OTHER -> cleanMsg
    /\ UNCHANGED <<fn, cfg, targets, subdirs, fault, futures, src, out, attempts, drained,
                   summary, exc>>

Next ==
    \/ Submit
    \/ method_error
    \/ StartDrain
    \/ \E t \in DOMAIN futures : copy_targets(t)
    \/ \E t \in DOMAIN futures : mseeds_to_sac(t)
    \/ \E t \in DOMAIN futures : process_batch(t)
    \/ \E t \in DOMAIN futures : merge_targets(t)
    \/ \E t \in DOMAIN futures : obspy_deconv(t)
    \/ \E t \in DOMAIN futures : sac_deconv(t)
    \/ \E t \in DOMAIN futures : obspy_resample_by_station(t)
    \/ \E t \in DOMAIN futures : sac_resample_by_station(t)
    \/ \E t \in DOMAIN futures : download_worker(t)
    \/ \E t \in DOMAIN futures : Drain(t)
    \/ ExitPool
    \/ AbortPool
    \/ Finish

Spec == Init /\ [][Next]_vars

----------------------------------------------------------------------------
\* Properties

Exited == pc \in {"returned", "raised"}

Files == DOMAIN fault

FilesOf(t) == Range(futures[t].files)

BadFiles(t) == {f \in FilesOf(t) : fault[f] # "ok"}

\* The results of the futures in `order`, concatenated.
RECURSIVE Flatten(_)
Flatten(order) ==
    IF order = <<>> THEN <<>>
    ELSE futures[Head(order)].res.val \o Flatten(Tail(order))

C2_WorkerExceptionRecorded ==
    cfg.stage = "sort_to" =>
        /\ pc # "raised"
        /\ \A i \in DOMAIN drained :
              futures[drained[i]].res.raised =>
                  \E k \in DOMAIN summary.errs :
                      summary.errs[k] = futures[drained[i]].res.val
        /\ Exited => Len(drained) = Len(futures)

\* C3: a miniSEED batch of N files of which k fail: when the batch has returned,
\* all N files were attempted once, exactly the N-k others are converted, and
\* the batch reports k diagnostics, one naming each failed file
\* (_mseeds_to_sac), resp. the count N-k (process_batch).  The error list of
\* mseed_dir_to_sac is the concatenation of the drained batches' diagnostics.
C3_BatchReportsItsFailures ==
    /\ cfg.stage \in {"mseed_dir_to_sac", "mseed2sac_dir"} =>
          \A t \in DOMAIN futures :
              futures[t].st = "done" =>
                  /\ ~futures[t].res.raised
                  /\ \A f \in FilesOf(t) :
                        /\ attempts[f] = 1
                        /\ (out[f] = "complete") <=> (fault[f] = "ok")
                  /\ cfg.stage = "mseed_dir_to_sac" =>
                        /\ Len(futures[t].res.val) = Cardinality(BadFiles(t))
                        /\ {d.item : d \in Range(futures[t].res.val)} =
                               {<<"file", f>> : f \in BadFiles(t)}
                  /\ cfg.stage = "mseed2sac_dir" =>
                        futures[t].res.val =
                            Len(futures[t].files) - Cardinality(BadFiles(t))
    /\ cfg.stage = "mseed_dir_to_sac" =>
          /\ summary.errs = Flatten(drained)
          /\ pc = "returned" =>
                /\ Len(summary.errs) = Cardinality({f \in Files : fault[f] # "ok"})
                /\ {d.item : d \in Range(summary.errs)} =
                       {<<"file", f>> : f \in {g \in Files : fault[g] # "ok"}}

C3_Witness ==
    /\ cfg.stage = "mseed_dir_to_sac"
    /\ pc = "returned"
    /\ \E t \in DOMAIN futures :
          /\ Len(futures[t].files) = 2
          /\ Cardinality(BadFiles(t)) = 1
          /\ Len(summary.errs) = 1

\* C4: in the sort stage a file that cannot be processed does not stop its
\* batch: when the batch has ended, every file of it was attempted, every file
\* that can be copied has been copied, and the failure did not leave the worker.
C4_SortBatchContinues ==
    cfg.stage = "sort_to" =>
        \A t \in DOMAIN futures :
            futures[t].st = "done" =>
                /\ ~futures[t].res.raised
                /\ \A f \in FilesOf(t) :
                      /\ attempts[f] = 1
                      /\ fault[f] = "ok" => out[f] = "complete"

ObspyOrMerge ==
    \/ cfg.stage = "merge_by_day"
    \/ cfg.stage \in {"deconvolution_last_subdirs", "resample_by_station"}
          /\ cfg.method = "obspy"

\* The unit of work file f belongs to: its leaf directory in the merge stage
\* (one try block around the whole directory), the file itself in the
\* deconvolution and resample stages (one try block per file).
UnitOf(f) ==
    IF cfg.stage = "merge_by_day"
    THEN UNION {Range(subdirs[d]) : d \in {e \in DOMAIN subdirs : f \in Range(subdirs[e])}}
    ELSE {f}

\* C5: in the merge stage and the obspy deconvolution and resample stages with
\* remove_src=True, at every moment a source file that has been deleted has its
\* output (and every output of its unit) completely written, and when read,
\* transform or write fails for a unit every source file of the unit exists.
C5_DeleteOnlyAfterWrite ==
    (ObspyOrMerge /\ cfg.remove_src) =>
        \A f \in Files :
            /\ src[f] \in {"present", "removed"}
            /\ src[f] = "removed" => \A g \in UnitOf(f) : out[g] = "complete"
            /\ (\E g \in UnitOf(f) : fault[g] # "ok") => src[f] = "present"

\* One file's source is deleted after its write, another file's write has failed
\* and its source is still there, and the run is over.
C5_Witness ==
    /\ ObspyOrMerge
    /\ cfg.remove_src
    /\ pc = "returned"
    /\ \E f, g \in Files :
          /\ src[f] = "removed" /\ out[f] = "complete"
          /\ fault[g] = "write" /\ src[g] = "present" /\ attempts[g] = 1

\* C6: no stage leaves a partially written file under a destination name: once
\* the task that wrote it has ended, a destination is absent or complete.
\* Stated for the merge stage and the obspy deconvolution and resample stages.
C6_NoPartialDestination ==
    ObspyOrMerge =>
        \A t \in DOMAIN futures :
            futures[t].st = "done" => \A f \in FilesOf(t) : out[f] # "partial"

\* C7: in the deconvolution stage and the download script the buckets of postfix
\* sum to the number of completions drained so far, and to the number of
\* submitted units when the run has ended.
C7_BucketsCountDrained ==
    cfg.stage \in PostfixStages =>
        /\ SumOver(summary.postfix, DOMAIN summary.postfix) = Len(drained)
        /\ Exited => SumOver(summary.postfix, DOMAIN summary.postfix) = Len(Units)

\* C8: when the entry function has ended (merge_by_day, resample_by_station),
\* every unit was submitted, every submitted unit has completed, and the outcome
\* of every submitted unit was drained exactly once.
C8_AllDrainedAtExit ==
    (cfg.stage \in {"merge_by_day", "resample_by_station"} /\ Exited) =>
        /\ Len(futures) = Len(Units)
        /\ \A t \in DOMAIN futures :
              /\ futures[t].st = "done"
              /\ Cardinality({i \in DOMAIN drained : drained[i] = t}) = 1

\* The diagnostics the workers have returned so far.
Collected ==
    UNION {Range(futures[t].res.val) :
             t \in {u \in DOMAIN futures :
                      futures[u].st = "done" /\ ~futures[u].res.raised}}

\* C9: in merge_by_day and mseed_dir_to_sac the error artifact is written at
\* most once, only when every submitted task has completed and been drained; at
\* the end of the run it has been written exactly if a diagnostic was collected,
\* and it then holds every collected diagnostic.
C9_ErrorArtifactOnceAtEnd ==
    cfg.stage \in {"merge_by_day", "mseed_dir_to_sac"} =>
        /\ Len(artifact) <= 1
        /\ artifact # <<>> =>
              /\ pc = "returned"
              /\ Len(futures) = Len(Units)
              /\ \A t \in DOMAIN futures :
                    futures[t].st = "done" /\ t \in Range(drained)
              /\ Range(artifact[1]) = Collected
        /\ pc = "returned" => (artifact # <<>> <=> Collected # {})

\* The artifact was written with the diagnostics of two tasks.
C9_Witness ==
    /\ cfg.stage \in {"merge_by_day", "mseed_dir_to_sac"}
    /\ Len(futures) = 2
    /\ Len(artifact) = 1
    /\ Len(artifact[1]) = 2

\* The leaf directories that hold a malformed (unreadable) file.
Malformed == {d \in DOMAIN subdirs : \E f \in Range(subdirs[d]) : fault[f] = "read"}

\* C10: merge_by_day over leaf directories of which exactly one holds a
\* malformed file (every other file being sound) ends with exactly one
\* diagnostic, which names that directory, and with every other directory that
\* has matching files merged.
C10_OneMalformedOneDiagnostic ==
    (/\ cfg.stage = "merge_by_day"
     /\ pc = "returned"
     /\ Cardinality(Malformed) = 1
     /\ \A f \in Files : fault[f] \in {"ok", "read"})
    =>
        /\ Len(summary.errs) = 1
        /\ \A d \in Malformed : summary.errs[1].item = <<"dir", d>>
        /\ \A d \in DOMAIN subdirs \ Malformed :
              \A f \in Range(subdirs[d]) : out[f] = "complete"

----------------------------------------------------------------------------
\* The leaf directories in which no file matches the pattern.
EmptyDirs == {d \in DOMAIN subdirs : subdirs[d] = <<>>}

\* C11: in merge_by_day a leaf directory that holds no file matching the
\* pattern is not a failure: _merge_targets on it returns no diagnostic, and
\* no diagnostic naming it reaches errs or the error artifact.
C11_EmptyDirNoDiagnostic ==
    cfg.stage = "merge_by_day" =>
        /\ \A t \in DOMAIN futures :
              (futures[t].st = "done" /\ futures[t].files = <<>>)
                  => (~futures[t].res.raised /\ futures[t].res.val = <<>>)
        /\ \A i \in DOMAIN summary.errs :
              \A d \in EmptyDirs : summary.errs[i].item # <<"dir", d>>
        /\ \A k \in DOMAIN artifact : \A i \in DOMAIN artifact[k] :
              \A d \in EmptyDirs : artifact[k][i].item # <<"dir", d>>

----------------------------------------------------------------------------
\* The helpers of the rose package called on their own.  No stage runs.

runvars == <<cfg, targets, subdirs, fault, futures, src, out, attempts, pc, drained,
             summary, artifact, cleanMsg, exc>>

NoRun ==
    /\ cfg = [stage |-> "none", method |-> "none", remove_src |-> FALSE, tool |-> TRUE,
              batch_size |-> 1, root |-> "dir"]
    /\ targets = <<>>
    /\ subdirs = <<>>
    /\ fault = <<>>
    /\ futures = <<>>
    /\ src = <<>>
    /\ out = <<>>
    /\ attempts = <<>>
    /\ pc = "none"
    /\ drained = <<>>
    /\ summary = EmptySummary("none")
    /\ artifact = <<>>
    /\ cleanMsg = FALSE
    /\ exc = NoExc

\* The lists of at most MaxItems units; a unit may occur more than once.
ItemLists == UNION {[1..n -> {"a", "b"}] : n \in 0..MaxItems}

\* gen = batch_generator(items, batch_size): the generator object is created,
\* no line of the body has run.
InitBatch ==
    /\ NoRun
    /\ \E items \in ItemLists, batch_size \in (0 - 1)..MaxBatchSize :
          fn = [op |-> "batch_generator", items |-> items, batch_size |-> batch_size,
                st |-> "created", out |-> <<>>]

\* next(gen): the body runs to the next yield.  The first call evaluates
\* range(0, len(items), batch_size), which raises ValueError for a zero step.
batch_next ==
    /\ fn.op = "batch_generator"
    /\ fn.st \in {"created", "suspended"}
    /\ fn' = IF fn.batch_size = 0 THEN [fn EXCEPT !.st = "ValueError"]
             ELSE LET slices == batch_generator(fn.items, fn.batch_size)
                      k == Len(fn.out) + 1
                  IN IF k <= Len(slices)
                     THEN [fn EXCEPT !.st = "suspended", !.out = Append(@, slices[k])]
                     ELSE [fn EXCEPT !.st = "exhausted"]
    /\ UNCHANGED runvars

SpecBatch == InitBatch /\ [][batch_next]_vars

\* The batches, concatenated in the order given.
RECURSIVE Concat(_)
Concat(batches) ==
    IF batches = <<>> THEN <<>> ELSE Head(batches) \o Concat(Tail(batches))

\* C14: for a positive batch size the batches yielded so far, concatenated in
\* the order they were yielded, are a prefix of the list, and once the
\* generator is exhausted they are the whole list: no unit is duplicated,
\* omitted or moved.
C14_BatchesConcatenateToList ==
    (fn.op = "batch_generator" /\ fn.batch_size > 0) =>
        /\ fn.st # "ValueError"
        /\ Len(Concat(fn.out)) <= Len(fn.items)
        /\ Concat(fn.out) = SubSeq(fn.items, 1, Len(Concat(fn.out)))
        /\ fn.st = "exhausted" => Concat(fn.out) = fn.items

\* A list with a repeated unit was cut into more than one batch.
C14_Witness ==
    /\ fn.op = "batch_generator"
    /\ fn.st = "exhausted"
    /\ fn.batch_size = 2
    /\ fn.items = <<"a", "a", "b">>
    /\ fn.out = << <<"a", "a">>, <<"b">> >>

\* C15: for a positive batch size no yielded batch is empty, every batch but
\* the last has exactly batch_size units, the last has len(items) mod
\* batch_size units when that is not zero and batch_size otherwise, and an
\* empty list yields no batch.
C15_BatchLengths ==
    (fn.op = "batch_generator" /\ fn.batch_size > 0) =>
        LET n == Len(fn.items)
            size == fn.batch_size
            last == IF n % size # 0 THEN n % size ELSE size
        IN
        /\ \A k \in DOMAIN fn.out :
              /\ Len(fn.out[k]) >= 1
              /\ k < Len(fn.out) => Len(fn.out[k]) = size
              /\ Len(fn.out[k]) \in {size, last}
              /\ k * size < n => Len(fn.out[k]) = size
        /\ n = 0 => fn.out = <<>>
        /\ (fn.st = "exhausted" /\ n > 0) =>
              /\ fn.out # <<>>
              /\ Len(fn.out[Len(fn.out)]) = last

\* The last batch is shorter than the others.
C15_Witness ==
    /\ fn.op = "batch_generator"
    /\ fn.st = "exhausted"
    /\ fn.batch_size = 2
    /\ Len(fn.items) = 3
    /\ Len(fn.out) = 2
    /\ Len(fn.out[2]) = 1

\* C16: with a batch size of zero or less and a list that is not empty the
\* generator yields no batch and does not end normally: it ends by raising.
C16_NonPositiveSizeRaises ==
    (fn.op = "batch_generator" /\ fn.batch_size <= 0 /\ fn.items # <<>>) =>
        /\ fn.out = <<>>
        /\ fn.st # "exhausted"

----------------------------------------------------------------------------
\* rose.pather.find_last_subdirs, call by call

\* find_last_subdirs(path) is called: the frames of the recursion are explicit.
InitLeaf ==
    /\ NoRun
    /\ \E t \in Trees :
          fn = [op |-> "find_last_subdirs", tree |-> t, stack |-> <<>>, calling |-> 1,
                st |-> "running", result |-> <<>>]

\* A call returns val: to the frame that made it, which extends last_subdirs
\* and goes on with its loop, or to the caller of the outermost call.
Deliver(f, val) ==
    IF f.stack = <<>>
    THEN [f EXCEPT !.st = "returned", !.result = val, !.calling = 0]
    ELSE LET top == f.stack[Len(f.stack)]
             i == top.i + 1
         IN [f EXCEPT !.stack[Len(f.stack)] =
                          [top EXCEPT !.last_subdirs = @ \o val, !.i = i],
                      !.calling = IF i <= Len(top.subdirs) THEN top.subdirs[i] ELSE 0]

\* find_last_subdirs(path) starts: it returns at once for a path that is no
\* directory or has no subdirectory, and enters its loop otherwise.
find_last_subdirs_call ==
    /\ fn.op = "find_last_subdirs"
    /\ fn.st = "running"
    /\ fn.calling # 0
    /\ LET path == fn.calling
           subs == child_dirs(fn.tree, path)
       IN fn' = IF ~is_dir(fn.tree, path) THEN Deliver(fn, <<>>)
                ELSE IF subs = <<>> THEN Deliver(fn, <<path>>)
                ELSE [fn EXCEPT !.stack = Append(@, [path |-> path, subdirs |-> subs,
                                                      i |-> 1, last_subdirs |-> <<>>]),
                                !.calling = subs[1]]
    /\ UNCHANGED runvars

\* The loop of the innermost frame is over: return last_subdirs
find_last_subdirs_return ==
    /\ fn.op = "find_last_subdirs"
    /\ fn.st = "running"
    /\ fn.calling = 0
    /\ fn.stack # <<>>
    /\ LET top == fn.stack[Len(fn.stack)]
       IN fn' = Deliver([fn EXCEPT !.stack = SubSeq(@, 1, Len(@) - 1)], top.last_subdirs)
    /\ UNCHANGED runvars

NextLeaf == find_last_subdirs_call \/ find_last_subdirs_return

\* The call runs in one thread of a running interpreter: it keeps taking steps.
SpecLeaf == InitLeaf /\ [][NextLeaf]_vars /\ WF_vars(NextLeaf)

\* The directories without a subdirectory.
LeafDirs(t) ==
    {d \in Nodes(t) : is_dir(t, d) /\ ~\E c \in Nodes(t) : t.parent[c] = d /\ is_dir(t, c)}

NoDuplicates(s) == \A i, j \in DOMAIN s : s[i] = s[j] => i = j

\* C17: find_last_subdirs(root) on a finite tree returns, and what it returns
\* are exactly the directories of the tree without a subdirectory (the root
\* included), each once; every frame has collected leaf directories below its
\* own path only, and for every directory d the function yields exactly the
\* leaf directories at or below d.
C17_LeafDirectoriesEachOnce ==
    /\ <>(fn.st = "returned")
    /\ [](\A k \in DOMAIN fn.stack :
             /\ NoDuplicates(fn.stack[k].last_subdirs)
             /\ \A x \in Range(fn.stack[k].last_subdirs) :
                   x \in LeafDirs(fn.tree) /\ Below(fn.tree, fn.stack[k].path, x))
    /\ []((fn.st = "returned" /\ is_dir(fn.tree, 1)) =>
             /\ Range(fn.result) = LeafDirs(fn.tree)
             /\ NoDuplicates(fn.result)
             /\ fn.result = find_last_subdirs(fn.tree, 1)
             /\ \A d \in Nodes(fn.tree) : is_dir(fn.tree, d) =>
                   Range(find_last_subdirs(fn.tree, d)) =
                       {x \in LeafDirs(fn.tree) : Below(fn.tree, d, x)})

\* Two leaf directories were returned, one of them two levels below the root;
\* the directory between it and the root was not returned.
C17_Witness ==
    /\ fn.op = "find_last_subdirs"
    /\ fn.st = "returned"
    /\ Len(fn.result) = 2
    /\ \E x \in Range(fn.result) :
          /\ Len(PathTo(fn.tree, x)) = 3
          /\ fn.tree.parent[x] \notin Range(fn.result)

----------------------------------------------------------------------------
\* rose.pather.glob, called on its own

\* glob(dir, method, patterns, exclude_parts, include_parts) is called.
InitGlob ==
    /\ NoRun
    /\ \E t \in Trees, method \in {"glob", "rglob"}, patterns \in PatternLists,
          exclude_parts \in {<<>>, <<Nm("d1", "")>>},
          include_parts \in {<<>>, <<Nm("d2", "")>>} :
          fn = [op |-> "glob", tree |-> t, method |-> method, patterns |-> patterns,
                exclude_parts |-> exclude_parts, include_parts |-> include_parts,
                st |-> "called", targets |-> <<>>]

glob_call ==
    /\ fn.op = "glob"
    /\ fn.st = "called"
    /\ fn' = [fn EXCEPT !.st = "returned",
                        !.targets = glob(fn.tree, 1, fn.method, fn.patterns,
                                         fn.exclude_parts, fn.include_parts)]
    /\ UNCHANGED runvars

SpecGlob == InitGlob /\ [][glob_call]_vars

\* The paths under dir (its entries for "glob", at any depth for "rglob") that
\* match a pattern, have no excluded segment and have every included segment.
Selected(f) ==
    {x \in Nodes(f.tree) \ {1} :
        /\ is_dir(f.tree, 1)
        /\ IF f.method = "glob" THEN f.tree.parent[x] = 1 ELSE Below(f.tree, 1, x)
        /\ \E i \in DOMAIN f.patterns : fnmatch(f.tree.name[x], f.patterns[i])
        /\ \A i \in DOMAIN f.exclude_parts : f.exclude_parts[i] \notin parts(f.tree, x)
        /\ \A i \in DOMAIN f.include_parts : f.include_parts[i] \in parts(f.tree, x)}

\* C18: pather.glob returns the paths under dir that match at least one of
\* the patterns, hold no excluded segment and hold every included segment,
\* each of them exactly once, also when a path matches two of the patterns.
C18_GlobEachPathOnce ==
    (fn.op = "glob" /\ fn.st = "returned") =>
        /\ Range(fn.targets) = Selected(fn)
        /\ NoDuplicates(fn.targets)

----------------------------------------------------------------------------
\* C19: under a source root that does not exist pather.glob and
\* find_last_subdirs return the empty list, whatever the other arguments; the
\* stage then has no unit, submits nothing, raises nothing, and when it has
\* ended it has returned.
C19_MissingRootNoUnits ==
    /\ find_last_subdirs(MissingRoot, 1) = <<>>
    /\ \A method \in {"glob", "rglob"}, patterns \in PatternLists :
          glob(MissingRoot, 1, method, patterns, <<>>, <<Nm("d1", "")>>) = <<>>
    /\ cfg.root = "missing" =>
          /\ targets = <<>>
          /\ subdirs = <<>>
          /\ Units = <<>>
          /\ futures = <<>>
          /\ exc = NoExc
          /\ artifact = <<>>
          /\ Exited => pc = "returned"

\* merge_by_day over a missing root has returned and reported no error.
C19_Witness ==
    /\ cfg.root = "missing"
    /\ cfg.stage = "merge_by_day"
    /\ pc = "returned"
    /\ cleanMsg

----------------------------------------------------------------------------
\* C20: when the external tool of a stage is missing, the stage raises before
\* it submits anything: no unit is ever submitted, and no worker is the first
\* to find the tool missing.
C20_MissingToolBeforeSubmit ==
    ~cfg.tool =>
        /\ futures = <<>>
        /\ \A t \in DOMAIN futures :
              ~(futures[t].res.raised /\ futures[t].res.val.cause = "FileNotFoundError")

----------------------------------------------------------------------------
\* Re-running a stage over the same directory.
\*
\* Here files have names.  A name is the list of the dot separated fields of
\* its stem and its extension (Nm), so that Path.stem, Path.with_suffix, the
\* split of the stem and the match of a "*.ext" pattern are what the code does
\* with them.  One directory of waveform files of one station and day is
\* processed twice by the same stage with the same arguments.  A file holds
\* one trace: its location and channel (the SAC header), the time spans of the
\* raw data it was made from, and the processing applied to it.

Locations == {"00", "10"}
Channels == {"HHZ", "HHN"}
Times == {"000000", "120000"}

\* net.sta.loc.cha.D.year.day.hourminsec.<ext> (sort.py:15)
SourceName(loc, cha, time, ext) ==
    Nm(<<"NZ", "S1", loc, cha, "D", "2024", "001", time>>, ext)

Raw(loc, cha, time) == [loc |-> loc, cha |-> cha, frags |-> {time}, ops |-> <<>>]

\* The directories of at most MaxFiles source files with extension ext.
SourceDirs(ext) ==
    LET ids == {s \in SUBSET (Locations \X Channels \X Times) : Cardinality(s) <= MaxFiles}
    IN { [n \in {SourceName(i[1], i[2], i[3], ext) : i \in s} |->
             Raw(n.stem[3], n.stem[4], n.stem[8])] : s \in ids }

Put(fs, name, data) == [n \in DOMAIN fs \cup {name} |-> IF n = name THEN data ELSE fs[n]]
Unlink(fs, names) == [n \in DOMAIN fs \ names |-> fs[n]]

\* The stages, methods and remove_src values of a re-run.
RerunArgs ==
    {[stage |-> "sort_to", method |-> "none", remove_src |-> FALSE]}
    \cup {[stage |-> "merge_by_day", method |-> "none", remove_src |-> r] : r \in BOOLEAN}
    \cup {[stage |-> s, method |-> m, remove_src |-> r] :
            s \in {"deconvolution_last_subdirs", "resample_by_station"},
            m \in {"obspy", "sac"}, r \in BOOLEAN}

InitRerun ==
    /\ NoRun
    /\ \E a \in RerunArgs, ext \in {"SAC", "sac"}, pext \in {"SAC", "sac"} :
         \E d \in SourceDirs(ext) :
          fn = [op |-> "rerun", stage |-> a.stage, method |-> a.method,
                remove_src |-> a.remove_src, pattern |-> Nm("*", pext),
                fs |-> d, before |-> d, dest |-> <<>>, run |-> 1, st |-> "idle",
                listing |-> {}, todo |-> {}, written |-> {},
                listing1 |-> {}, last1 |-> Nm(<<>>, ""), written1 |-> {},
                after1 |-> [fs |-> <<>>, dest |-> <<>>]]

\* The entry function is called: the files matching the pattern are listed
\* (pather.glob, day.glob, dir.rglob list a directory before any of its files
\* is touched).
path_discover ==
    /\ fn.op = "rerun"
    /\ fn.st = "idle"
    /\ LET found == {n \in DOMAIN fn.fs : fnmatch(n, fn.pattern)}
       IN fn' = [fn EXCEPT !.st = "running", !.listing = found, !.todo = found,
                           !.written = {}, !.before = fn.fs]
    /\ UNCHANGED runvars

\* _copy_targets, one file: dest_path / net / sta / year / day / target.name
sorted_path(name) ==
    [dir |-> <<name.stem[1], name.stem[2], name.stem[6], name.stem[7]>>, name |-> name]

path_copy_targets ==
    /\ fn.op = "rerun"
    /\ fn.stage = "sort_to"
    /\ fn.st = "running"
    /\ \E target \in fn.todo :
          fn' = IF Len(target.stem) # 8              \* the unpacking raises ValueError
                THEN [fn EXCEPT !.st = "raised"]
                ELSE [fn EXCEPT !.todo = @ \ {target},
                                !.dest = Put(@, sorted_path(target), fn.fs[target]),
                                !.written = @ \cup {sorted_path(target)}]
    /\ UNCHANGED runvars

\* target_parts = sac_parts + ["merged", "sac"]: the last field of the stem is kept
merged_name_keep(sac, channel) ==
    Nm([sac.stem EXCEPT ![4] = channel] \o <<"merged">>, "sac")

\* target_parts = sac_parts[:-1] + ["merged", "sac"]; target_parts[3] = channel
merged_name(sac, channel) ==
    Nm([SubSeq(sac.stem, 1, Len(sac.stem) - 1) EXCEPT ![4] = channel] \o <<"merged">>,
       "sac")

\* st.sort(); st.merge(): one trace per (location, channel), made of all the
\* data read for it.
merged_trace(traces, loc, cha) ==
    [loc |-> loc, cha |-> cha,
     frags |-> UNION {tr.frags : tr \in {x \in traces : x.loc = loc /\ x.cha = cha}},
     ops |-> <<>>]

\* The traces are written in sorted order, each to the name of its channel:
\* of two locations with the same channel the later one, "10", stays.
last_written(traces, cha) ==
    LET locs == {tr.loc : tr \in {x \in traces : x.cha = cha}}
    IN merged_trace(traces, IF "10" \in locs THEN "10" ELSE "00", cha)

\* The file glob lists last.  The order of a listing is the directory's own;
\* it is the same in both runs for the files that are in both listings.
Lasts(f) ==
    {x \in f.listing : \/ f.run = 1
                       \/ x = f.last1
                       \/ x \notin f.listing1
                       \/ f.last1 \notin f.listing}

\* _merge_targets on the directory
path_merge_targets ==
    /\ fn.op = "rerun"
    /\ fn.stage = "merge_by_day"
    /\ fn.st = "running"
    /\ fn.todo = fn.listing
    /\ IF fn.listing = {}
       THEN fn' = [fn EXCEPT !.st = "finished"]          \* NameError, caught
       ELSE \E sac \in Lasts(fn) :
              LET traces == {fn.fs[n] : n \in fn.listing}
                  names == {merged_name(sac, tr.cha) : tr \in traces}
                  wrote == [n \in DOMAIN fn.fs \cup names |->
                               IF n \in names THEN last_written(traces, n.stem[4])
                               ELSE fn.fs[n]]
              IN fn' = [fn EXCEPT !.st = "finished", !.todo = {},
                                  !.fs = IF fn.remove_src THEN Unlink(wrote, fn.listing)
                                         ELSE wrote,
                                  !.written = names,
                                  !.last1 = IF fn.run = 1 THEN sac ELSE @]
    /\ UNCHANGED runvars

\* target.with_suffix(suffix): the last extension is replaced by the suffix
with_suffix(name, suffix) ==
    Nm(name.stem \o SubSeq(suffix, 1, Len(suffix) - 1), suffix[Len(suffix)])

\* ".deconv.sac" and f".{delta}Hz.sac" for delta = 5.0
StageSuffix(stage) ==
    IF stage = "deconvolution_last_subdirs" THEN <<"deconv", "sac">>
    ELSE <<"5", "0Hz", "sac">>

Processed(data, stage) == [data EXCEPT !.ops = Append(@, stage)]

\* A worker that writes every output over its source.
dest_sac_over(target, stage, method, remove_src) == target

\* The file a worker writes for a target: target.with_suffix(".deconv.sac") or
\* target.with_suffix(f".{delta}Hz.sac"); with the sac method and remove_src
\* the command is "w over", which writes the file that was read.
dest_sac(target, stage, method, remove_src) ==
    IF method = "sac" /\ remove_src
    THEN target
    ELSE with_suffix(target, StageSuffix(stage))

\* obspy_deconv / obspy_resample_by_station / sac_deconv /
\* sac_resample_by_station, one file of the listing
path_process ==
    /\ fn.op = "rerun"
    /\ fn.stage \in {"deconvolution_last_subdirs", "resample_by_station"}
    /\ fn.st = "running"
    /\ \E target \in fn.todo :
          LET dest == dest_sac(target, fn.stage, fn.method, fn.remove_src)
              wrote == Put(fn.fs, dest, Processed(fn.fs[target], fn.stage))
          IN fn' = [fn EXCEPT !.todo = @ \ {target},
                              !.fs = IF fn.method = "obspy" /\ fn.remove_src
                                     THEN Unlink(wrote, {target})
                                     ELSE wrote,
                              !.written = @ \cup {dest}]
    /\ UNCHANGED runvars

\* The entry function returns; after the first run the stage is called again.
path_return ==
    /\ fn.op = "rerun"
    /\ \/ fn.st = "finished"
       \/ fn.st = "running" /\ fn.stage # "merge_by_day" /\ fn.todo = {}
    /\ fn' = IF fn.run = 1
             THEN [fn EXCEPT !.run = 2, !.st = "idle", !.listing1 = fn.listing,
                             !.written1 = fn.written,
                             !.after1 = [fs |-> fn.fs, dest |-> fn.dest]]
             ELSE [fn EXCEPT !.st = "done"]
    /\ UNCHANGED runvars

NextRerun ==
    \/ path_discover
    \/ path_copy_targets
    \/ path_merge_targets
    \/ path_process
    \/ path_return

SpecRerun == InitRerun /\ [][NextRerun]_vars

C13_SecondRunNoNewOutput ==
    (/\ fn.op = "rerun"
     /\ fn.stage \in {"deconvolution_last_subdirs", "resample_by_station"}
     /\ ~fn.remove_src
     /\ fn.st = "done")
    => /\ \A target \in fn.listing1 :
             with_suffix(target, StageSuffix(fn.stage)) \in fn.written1 \cap fn.written
       /\ fn.written \subseteq fn.written1

----------------------------------------------------------------------------
\* C21: a deconvolution or resample run with a method other than "obspy" and
\* "sac" never gets past the submission: it submits nothing, runs no
\* transform, and ends only by raising ValueError, whatever units were found.
C21_UnknownMethodRaises ==
    UnknownMethod =>
        /\ futures = <<>>
        /\ \A f \in DOMAIN attempts : attempts[f] = 0
        /\ pc \in {"submit", "raised"}
        /\ pc = "raised" => exc.kind = "ValueError"

----------------------------------------------------------------------------
\* sac_deconv on its own: one unit of the deconvolution stage, method "sac".
\* fn holds the arguments, the directory, the log of the worker, the command
\* text built so far and whether the external tool was started.

ResampleArgs == {"None", "5.0", "10.0"}

InitSacDeconv ==
    /\ NoRun
    /\ \E d \in SourceDirs("SAC"), resample \in ResampleArgs,
          remove_src \in BOOLEAN, tool \in BOOLEAN :
          fn = [op |-> "sac_deconv", fs |-> d, resample |-> resample,
                remove_src |-> remove_src, tool |-> tool, st |-> "entry",
                log |-> <<>>, cmd |-> <<>>, todo |-> DOMAIN d, invoked |-> FALSE]

\* A worker that says nothing about the resample argument.
sac_deconv_silent(resample, log) == log

\* if resample is not None: logger.warning("resample is not supported by `sac` method")
sac_deconv_warning(resample, log) ==
    IF resample # "None"
    THEN Append(log, [level |-> "WARNING", msg |-> "resample is not supported"])
    ELSE log

sac_deconv_entry ==
    /\ fn.op = "sac_deconv"
    /\ fn.st = "entry"
    /\ fn' = [fn EXCEPT !.log = sac_deconv_warning(fn.resample, @), !.st = "cmd"]
    /\ UNCHANGED runvars

\* The commands of one target: read, clean, remove the response, scale, write.
sac_deconv_lines(target, remove_src) ==
    << [op |-> "r", arg |-> target],
       [op |-> "rmean; rtr; taper", arg |-> target],
       [op |-> "trans", arg |-> target],
       [op |-> "mul", arg |-> target],
       IF remove_src THEN [op |-> "w over", arg |-> target]
       ELSE [op |-> "w", arg |-> with_suffix(target, <<"deconv", "sac">>)] >>

\* for target in dir.rglob(pattern): cmd += ...; then cmd += "q\n"
sac_deconv_cmd ==
    /\ fn.op = "sac_deconv"
    /\ fn.st = "cmd"
    /\ \/ \E target \in fn.todo :
            fn' = [fn EXCEPT !.cmd = @ \o sac_deconv_lines(target, fn.remove_src),
                             !.todo = @ \ {target}]
       \/ /\ fn.todo = {}
          /\ fn' = [fn EXCEPT !.cmd = Append(@, [op |-> "q", arg |-> Nm(<<>>, "")]),
                              !.st = "popen"]
    /\ UNCHANGED runvars

\* What the tool does with the command text: "r" reads a file into memory,
\* "trans" removes the response from the data in memory, "w" writes it.
RECURSIVE sac_run(_, _, _, _)
sac_run(fs, cmd, i, mem) ==
    IF i > Len(cmd) THEN fs
    ELSE LET c == cmd[i]
         IN CASE c.op = "r" -> sac_run(fs, cmd, i + 1, fs[c.arg])
              [] c.op = "trans" ->
                   sac_run(fs, cmd, i + 1, Processed(mem, "deconvolution_last_subdirs"))
              [] c.op = "interpolate" ->
                   sac_run(fs, cmd, i + 1, Processed(mem, "resample_by_station"))
              [] c.op \in {"w", "w over"} -> sac_run(Put(fs, c.arg, mem), cmd, i + 1, mem)
              [] c.op = "q" -> fs
              [] OTHER -> sac_run(fs, cmd, i + 1, mem)

\* subprocess.Popen(["sac"], stdin=PIPE).communicate(cmd.encode()); return "success"
sac_deconv_popen ==
    /\ fn.op = "sac_deconv"
    /\ fn.st = "popen"
    /\ fn' = IF fn.tool
             THEN [fn EXCEPT !.fs = sac_run(fn.fs, fn.cmd, 1, Raw("", "", "")),
                             !.invoked = TRUE, !.st = "success"]
             ELSE [fn EXCEPT !.st = "FileNotFoundError"]
    /\ UNCHANGED runvars

NextSacDeconv ==
    \/ sac_deconv_entry
    \/ sac_deconv_cmd
    \/ sac_deconv_popen

SpecSacDeconv == InitSacDeconv /\ [][NextSacDeconv]_vars

----------------------------------------------------------------------------
----------------------------------------------------------------------------
\* C24: every file a first run of deconvolution_last_subdirs or
\* resample_by_station writes is named after one of its sources with the
\* stage's suffix field put before the extension, and is not written under
\* the name of a source, for both methods and both values of remove_src.
C24_OutputsCarrySuffix ==
    (/\ fn.op = "rerun"
     /\ fn.stage \in {"deconvolution_last_subdirs", "resample_by_station"}
     /\ fn.run = 1) =>
        \A n \in fn.written :
            /\ n \notin fn.listing
            /\ \E target \in fn.listing : n = with_suffix(target, StageSuffix(fn.stage))

----------------------------------------------------------------------------
\* build_destination_path on its own.  fn holds the arguments, the set of
\* directories that exist, and the paths the calls returned.  Numbers are
\* formatted into sequences of digit characters, as the f-string does.

DigitChars == <<"0", "1", "2", "3", "4", "5", "6", "7", "8", "9">>

\* str(n) for n >= 0, most significant digit first
RECURSIVE Digits(_)
Digits(n) == IF n < 10 THEN <<DigitChars[n + 1]>>
             ELSE Append(Digits(n \div 10), DigitChars[(n % 10) + 1])

\* f"{n:d}": no padding
format_d(n, width) == Digits(n)

\* f"{n:0{width}d}" for n >= 0: zeros in front up to the width, never cut
format_0d(n, width) ==
    LET d == Digits(n)
    IN IF Len(d) >= width THEN d ELSE [i \in 1..(width - Len(d)) |-> "0"] \o d

\* int(s) for a sequence of digit characters
RECURSIVE IntOf(_)
IntOf(s) ==
    IF s = <<>> THEN 0
    ELSE 10 * IntOf(SubSeq(s, 1, Len(s) - 1))
         + (CHOOSE d \in 0..9 : DigitChars[d + 1] = s[Len(s)])

Years == {7, 987, 2024}
Juldays == {1, 45, 366}

BuildArgs ==
    [network : {"XB", "NZ"}, station : {"CD01"}, year : Years, julday : Juldays,
     location : {"", "00"}, channel : {"HHZ"}, data_quality : {"D"},
     dest_base : {"dest"}, suffix : {".sac", ".SAC"}]

\* year_str, day_str, dir_path and filename of build_destination_path
build_destination_path(a) ==
    LET year_str == format_0d(a.year, 4)
        day_str == format_0d(a.julday, 3)
    IN [dir_path |-> [base |-> a.dest_base, network |-> a.network,
                      station |-> a.station, year |-> year_str, day |-> day_str],
        filename |-> [network |-> a.network, station |-> a.station,
                      location |-> a.location, channel |-> a.channel,
                      data_quality |-> a.data_quality, year |-> year_str,
                      day |-> day_str, suffix |-> a.suffix]]

InitBuild ==
    /\ NoRun
    /\ \E a \in BuildArgs :
          fn = [op |-> "build_destination_path", args |-> a, dirs |-> {},
                returned |-> <<>>]

\* One call: dir_path.mkdir(parents=True, exist_ok=True); return dir_path / filename.
\* The function is called for every trace of a stream, so again with the
\* directory already there.
build_destination_path_call ==
    /\ fn.op = "build_destination_path"
    /\ Len(fn.returned) < 2
    /\ LET p == build_destination_path(fn.args)
       IN fn' = [fn EXCEPT !.dirs = @ \cup {p.dir_path},
                           !.returned = Append(@, p)]
    /\ UNCHANGED runvars

SpecBuild == InitBuild /\ [][build_destination_path_call]_vars

----------------------------------------------------------------------------
\* C26: when sort_to has ended, every matched file that can be processed (its
\* stem has the eight fields and it can be copied) has its copy, complete, in
\* the destination, and the source files are all still in place.
C26_SortCopiesEveryFile ==
    (cfg.stage = "sort_to" /\ Exited) =>
        \A f \in Files :
            /\ src[f] = "present"
            /\ fault[f] = "ok" => out[f] = "complete"

----------------------------------------------------------------------------
\* The two download implementations, one worker process: download_worker of
\* script/get_wave.py ("script") and IRISDownloader._process_single_station_day
\* of download.py ("iris").  The worker is given station-days one after the
\* other; fn holds them, the destination directory and the remote service's
\* answer of each, the worker's position, what it reported for each
\* station-day, and its sleeps and requests in the order they happened.

MaxTasks == 2

\* A destination directory: missing, or the state of its entries.
DestDirs ==
    {[exists |-> FALSE, files |-> <<>>]}
    \cup {[exists |-> TRUE, files |-> [n \in s |-> "old"]] :
            s \in {{}, {"HHZ"}, {"HHE", "HHN", "HHZ"}}}

\* What the service has for a station-day: traces, HTTP 204, an empty stream,
\* or an error.
Remotes == {"data", "nodata", "empty", "error"}

StationDays == [dest : DestDirs, remote : Remotes]

DownloadTasks == UNION {[1..n -> StationDays] : n \in 1..MaxTasks}

InitDownload ==
    /\ NoRun
    /\ \E impl \in {"script", "iris"}, tasks \in DownloadTasks :
          fn = [op |-> "download", impl |-> impl, tasks |-> tasks,
                self_client |-> FALSE,      \* download.py:41-46, never assigned
                dest |-> [k \in DOMAIN tasks |-> tasks[k].dest],
                i |-> 1, st |-> "check", results |-> <<>>, events |-> <<>>,
                counted |-> 0,
                postfix |-> [success |-> 0, failed |-> 0, skipped |-> 0, nodata |-> 0]]

\* A worker that never takes the destination for complete.
already_complete_never(impl, d) == FALSE

\* get_wave.py:47   dest_dir.exists() and len(list(dest_dir.iterdir())) == 3
\* download.py:116  save_path.exists() and any(save_path.iterdir())
already_complete(impl, d) ==
    IF impl = "script"
    THEN d.exists /\ Cardinality(DOMAIN d.files) = 3
    ELSE d.exists /\ DOMAIN d.files # {}

\* What a worker reports for a station-day: the value it returns and the
\* line it logs.
Outcome(ret, level, msg) == [ret |-> ret, level |-> level, msg |-> msg]

Skipped(impl) ==
    IF impl = "script" THEN Outcome("skipped", "", "")
    ELSE Outcome("True", "INFO", "Exists")

NoData(impl) ==
    IF impl = "script" THEN Outcome("nodata", "WARNING", "No Data")
    ELSE Outcome("False", "WARNING", "No Data")

Failed(impl) ==
    IF impl = "script" THEN Outcome("failed", "ERROR", "error date")
    ELSE Outcome("False", "ERROR", "Download failed")

Success(impl) ==
    IF impl = "script" THEN Outcome("success", "", "")
    ELSE Outcome("True", "DEBUG", "Downloaded")

\* The station-day is done: its outcome is reported, the worker takes the next.
Report(f, outcome) ==
    [f EXCEPT !.results = Append(@, outcome), !.i = @ + 1, !.st = "check"]

\* The guard before any work.
download_check ==
    /\ fn.op = "download"
    /\ fn.st = "check"
    /\ fn.i <= Len(fn.tasks)
    /\ fn' = IF already_complete(fn.impl, fn.dest[fn.i])
             THEN Report(fn, Skipped(fn.impl))
             ELSE [fn EXCEPT !.st = IF fn.impl = "iris" THEN "sleep" ELSE "request"]
    /\ UNCHANGED runvars

\* download.py:122  time.sleep(self.config["request_interval"])
download_sleep ==
    /\ fn.op = "download"
    /\ fn.st = "sleep"
    /\ fn' = [fn EXCEPT !.events = Append(@, [kind |-> "sleep", task |-> fn.i]),
                        !.st = "request"]
    /\ UNCHANGED runvars

\* The answer of client.get_waveforms as the worker sees it.
AfterRequest(f) ==
    LET remote == f.tasks[f.i].remote
        sent == [f EXCEPT !.events = Append(@, [kind |-> "request", task |-> f.i])]
    IN CASE remote = "nodata" -> Report(sent, NoData(f.impl))   \* FDSNNoDataException
         [] remote = "error" -> Report(sent, Failed(f.impl))    \* any other exception
         [] remote = "empty" /\ f.impl = "iris" ->
                Report(sent, NoData(f.impl))                    \* len(stream) == 0
         [] OTHER -> [sent EXCEPT !.st = "write"]

\* get_wave.py:50-57 client.get_waveforms(...) with the module's client;
\* download.py:124 self.client.get_waveforms(...): the instance has no
\* attribute client, the AttributeError is caught at line 148.
download_request ==
    /\ fn.op = "download"
    /\ fn.st = "request"
    /\ fn' = IF fn.impl = "iris" /\ ~fn.self_client
             THEN Report(fn, Failed(fn.impl))
             ELSE AfterRequest(fn)
    /\ UNCHANGED runvars

\* dest_dir.mkdir(parents=True, exist_ok=True); one file per trace
download_write ==
    /\ fn.op = "download"
    /\ fn.st = "write"
    /\ LET traces == IF fn.tasks[fn.i].remote = "data" THEN {"HHE", "HHN", "HHZ"} ELSE {}
           d == fn.dest[fn.i]
           written == [exists |-> TRUE,
                       files |-> [n \in DOMAIN d.files \cup traces |->
                                     IF n \in traces THEN "new" ELSE d.files[n]]]
       IN fn' = [Report(fn, Success(fn.impl)) EXCEPT !.dest[fn.i] = written]
    /\ UNCHANGED runvars

\* The coordinator takes a result: get_wave.py:28-29 postfix[result] += 1;
\* download.py:189-195 only moves the progress bar.
download_drain ==
    /\ fn.op = "download"
    /\ fn.counted < Len(fn.results)
    /\ LET result == fn.results[fn.counted + 1].ret
       IN fn' = IF fn.impl = "script"
                THEN [fn EXCEPT !.counted = @ + 1, !.postfix[result] = @ + 1]
                ELSE [fn EXCEPT !.counted = @ + 1]
    /\ UNCHANGED runvars

NextDownload ==
    \/ download_check
    \/ download_sleep
    \/ download_request
    \/ download_write
    \/ download_drain

SpecDownload == InitDownload /\ [][NextDownload]_vars

\* The station-days the worker has reported.
Reported == 1..Len(fn.results)

\* C27: in both implementations what the worker reports for a station-day
\* the service has no data for differs from what it reports for a station-day
\* whose download failed, and the script's failed count is the number of
\* counted station-days whose download failed.
C27_NoDataNotFailed ==
    fn.op = "download" =>
        /\ \A k \in Reported, m \in Reported :
              (/\ fn.tasks[k].remote = "nodata" /\ fn.results[k] # Skipped(fn.impl)
               /\ fn.tasks[m].remote = "error" /\ fn.results[m] # Skipped(fn.impl))
              => fn.results[k] # fn.results[m]
        /\ fn.impl = "script" =>
              fn.postfix.failed =
                 Cardinality({k \in 1..fn.counted : /\ fn.tasks[k].remote = "error"
                                                    /\ fn.results[k] # Skipped(fn.impl)})

\* C28: a station-day whose destination is already complete (the script:
\* the directory exists with exactly 3 entries; IRISDownloader: it exists
\* and is not empty) is reported as skipped, no request was sent for it, and
\* its directory holds the files it held, unchanged.
C28_CompleteIsSkipped ==
    fn.op = "download" =>
        \A k \in Reported :
            LET d == fn.tasks[k].dest
                complete == IF fn.impl = "script"
                            THEN d.exists /\ Cardinality(DOMAIN d.files) = 3
                            ELSE d.exists /\ Cardinality(DOMAIN d.files) > 0
            IN complete =>
                /\ fn.results[k] = Skipped(fn.impl)
                /\ fn.dest[k] = d
                /\ \A e \in DOMAIN fn.events : fn.events[e].task # k

C28_Witness ==
    /\ fn.op = "download"
    /\ Len(fn.results) = 2
    /\ fn.results[2] = Skipped(fn.impl)
    /\ fn.results[1] # Skipped(fn.impl)
    /\ fn.tasks[2].dest.exists

\* C29: in the worker's sequence of sleeps and requests, every request but
\* the first has a sleep between it and the request before it.
C29_DelayBetweenRequests ==
    fn.op = "download" =>
        \A a \in DOMAIN fn.events, b \in DOMAIN fn.events :
            (a < b /\ fn.events[a].kind = "request" /\ fn.events[b].kind = "request")
            => \E s \in (a + 1)..(b - 1) : fn.events[s].kind = "sleep"

----------------------------------------------------------------------------
\* _calculate_julian_dates on its own.  An instant is a number of ticks since
\* 2023-12-30T00:00:00, TicksPerDay ticks to the day, so the days of the model
\* run over the end of the year 2023.

TicksPerDay == 3
MaxDays == 4

Instants == 0..(MaxDays * TicksPerDay - 1)

\* current.year and current.timetuple().tm_yday: day 0 is day 364 of 2023,
\* a year of 365 days
timetuple(t) ==
    LET n == 364 + (t \div TicksPerDay)
    IN IF n <= 365 THEN [tm_year |-> 2023, tm_yday |-> n]
       ELSE [tm_year |-> 2024, tm_yday |-> n - 365]

\* (year, f"{jday:03d}")
year_jday(t) == <<timetuple(t).tm_year, format_0d(timetuple(t).tm_yday, 3)>>

\* The order of Python's strings, on sequences of digit characters
RECURSIVE str_lt(_, _)
str_lt(a, b) ==
    IF a = <<>> THEN b # <<>>
    ELSE IF b = <<>> THEN FALSE
    ELSE IF a[1] = b[1] THEN str_lt(Tail(a), Tail(b))
    ELSE IntOf(<<a[1]>>) < IntOf(<<b[1]>>)

\* The order of Python's tuples (int, str)
tuple_lt(a, b) == a[1] < b[1] \/ (a[1] = b[1] /\ str_lt(a[2], b[2]))

\* sorted(dates)
RECURSIVE sorted(_)
sorted(dates) ==
    IF dates = {} THEN <<>>
    ELSE LET least == CHOOSE x \in dates : \A y \in dates \ {x} : tuple_lt(x, y)
         IN <<least>> \o sorted(dates \ {least})

InitJulian ==
    /\ NoRun
    /\ \E start \in Instants, end \in Instants :
          /\ start <= end
          /\ fn = [op |-> "_calculate_julian_dates", start |-> start, end |-> end,
                   current |-> start, dates |-> {}, st |-> "loop", result |-> <<>>]

\* while current <= end: dates.add(...); current += datetime.timedelta(days=1)
julian_loop ==
    /\ fn.op = "_calculate_julian_dates"
    /\ fn.st = "loop"
    /\ fn.current <= fn.end
    /\ fn' = [fn EXCEPT !.dates = @ \cup {year_jday(fn.current)},
                        !.current = @ + TicksPerDay]
    /\ UNCHANGED runvars

\* return sorted(dates)
julian_return ==
    /\ fn.op = "_calculate_julian_dates"
    /\ fn.st = "loop"
    /\ fn.current > fn.end
    /\ fn' = [fn EXCEPT !.result = sorted(fn.dates), !.st = "returned"]
    /\ UNCHANGED runvars

NextJulian ==
    \/ julian_loop
    \/ julian_return

SpecJulian == InitJulian /\ [][NextJulian]_vars

\* The calendar days with an instant in [start, end].
DaysTouched(start, end) ==
    {year_jday(d * TicksPerDay) : d \in (start \div TicksPerDay)..(end \div TicksPerDay)}

\* C30: what _calculate_julian_dates returns is sorted, has no duplicates, and
\* holds the (year, day of year) of exactly the calendar days that have an
\* instant in [start, end].
C30_EveryDayOfTheWindow ==
    (fn.op = "_calculate_julian_dates" /\ fn.st = "returned") =>
        /\ \A i \in 1..(Len(fn.result) - 1) : tuple_lt(fn.result[i], fn.result[i + 1])
        /\ Range(fn.result) = DaysTouched(fn.start, fn.end)

----------------------------------------------------------------------------
\* format_per_event on its own: the files of one event directory, in the
\* order glob lists them.  fn holds what happens to each file (fault), the
\* position of the loop, the local variable dest_file ("unbound" until line 88
\* has run once, then the number of the file it was last computed for), and
\* the destination file of each source file.

FormatFaults == {"ok", "name", "station", "read", "write"}

FormatFiles == UNION {[1..n -> FormatFaults] : n \in 1..MaxFiles}

InitFormat ==
    /\ NoRun
    /\ \E files \in FormatFiles :
          fn = [op |-> "format_per_event", files |-> files, i |-> 1, st |-> "try",
                dest_file |-> 0,                       \* 0: not bound yet
                dest |-> [k \in DOMAIN files |-> "absent"],
                post |-> [success |-> 0, failed |-> 0]]

\* The body of the try block for the file at the loop's position
\* (format.py:44-90).
format_try ==
    /\ fn.op = "format_per_event"
    /\ fn.st = "try"
    /\ fn.i <= Len(fn.files)
    /\ LET flt == fn.files[fn.i] IN
       fn' = CASE flt \in {"name", "station"} ->               \* logger.error; continue
                    [fn EXCEPT !.i = @ + 1]
               [] flt = "read" ->                               \* obspy.read raises
                    [fn EXCEPT !.st = "except"]
               [] flt = "write" ->                              \* tr.write raises
                    [fn EXCEPT !.dest_file = fn.i, !.dest[fn.i] = "partial",
                               !.st = "except"]
               [] OTHER ->
                    [fn EXCEPT !.dest_file = fn.i, !.dest[fn.i] = "complete",
                               !.post.success = @ + 1, !.i = @ + 1]
    /\ UNCHANGED runvars

\* if dest_file.exists(): dest_file.unlink()  -- dest_file is whatever the
\* loop last bound it to
cleanup(f) ==
    IF f.dest[f.dest_file] # "absent" THEN [f EXCEPT !.dest[f.dest_file] = "absent"]
    ELSE f

\* except Exception as e (format.py:92-97)
format_except ==
    /\ fn.op = "format_per_event"
    /\ fn.st = "except"
    /\ fn' = IF fn.dest_file = 0
             THEN [fn EXCEPT !.st = "UnboundLocalError"]   \* leaves the function
             ELSE [cleanup(fn) EXCEPT !.post.failed = @ + 1, !.i = @ + 1, !.st = "try"]
    /\ UNCHANGED runvars

\* return post
format_return ==
    /\ fn.op = "format_per_event"
    /\ fn.st = "try"
    /\ fn.i > Len(fn.files)
    /\ fn' = [fn EXCEPT !.st = "returned"]
    /\ UNCHANGED runvars

NextFormat ==
    \/ format_try
    \/ format_except
    \/ format_return

SpecFormat == InitFormat /\ [][NextFormat]_vars

\* C31: in format_per_event the destination of every file that was processed
\* without failure stays in place, complete, whatever happens to the files
\* after it, and the failure handler never raises.
C31_OnlyOwnDestinationRemoved ==
    fn.op = "format_per_event" =>
        /\ fn.st # "UnboundLocalError"
        /\ \A k \in 1..Min(fn.i - 1, Len(fn.files)) :
              fn.files[k] = "ok" => fn.dest[k] = "complete"

----------------------------------------------------------------------------
\* C32: when merge_by_day or mseed_dir_to_sac has returned, its "NO errors"
\* message was emitted exactly if no diagnostic was collected in the run; with
\* a diagnostic the message is absent and the error artifact was written.
C32_CleanMessageIffNoErrors ==
    (cfg.stage \in {"merge_by_day", "mseed_dir_to_sac"} /\ pc = "returned") =>
        /\ cleanMsg <=> summary.errs = <<>>
        /\ summary.errs # <<>> => artifact # <<>>

----------------------------------------------------------------------------
\* C33: when obspy_deconv has returned for a directory, every matched file of
\* the directory was attempted once, whatever happened to the files before
\* it, and the value returned is "failed" exactly if a matched file raised;
\* it is "success" otherwise, also for a directory without a matched file.
C33_ObspyDeconvAttemptsAll ==
    (cfg.stage = "deconvolution_last_subdirs" /\ cfg.method = "obspy") =>
        \A t \in DOMAIN futures :
            futures[t].st = "done" =>
                /\ ~futures[t].res.raised
                /\ \A f \in FilesOf(t) : attempts[f] = 1
                /\ futures[t].res.val \in {"success", "failed"}
                /\ futures[t].res.val = "failed" <=> BadFiles(t) # {}

\* A directory whose first file raised and whose second file was converted.
C33_Witness ==
    /\ cfg.stage = "deconvolution_last_subdirs"
    /\ cfg.method = "obspy"
    /\ \E t \in DOMAIN futures :
          /\ futures[t].st = "done"
          /\ Len(futures[t].files) = 2
          /\ fault[futures[t].files[1]] # "ok"
          /\ out[futures[t].files[2]] = "complete"
          /\ futures[t].res.val = "failed"

----------------------------------------------------------------------------
\* C34: when _merge_targets with remove_src = True has ended for a directory
\* with matching files, every merged output it wrote is in the directory,
\* also when the pattern matched the merged outputs of an earlier run.
C34_MergedOutputsKept ==
    (/\ fn.op = "rerun"
     /\ fn.stage = "merge_by_day"
     /\ fn.remove_src
     /\ fn.st = "finished") =>
        \A n \in fn.written : n \in DOMAIN fn.fs

----------------------------------------------------------------------------
\* The miniSEED conversion of two source files by workers that run at the
\* same time: mseed2sac of collate/mseed2sac.py ("collate"), which names its
\* output with build_destination_path, and _mseed2sac of mseed2sac.py
\* ("module").  fn holds the header of each source file and the destination
\* tree: for every path written, the source file whose data it holds.

\* The headers of a source file: stats and the time of day of its start.
ConvertStats ==
    [network : {"XB"}, station : {"CD01"}, location : {"", "00"},
     channel : {"HHZ", "HHN"}, data_quality : {"D"}, year : {2024},
     julday : {1, 45}, time : {"000000", "120000"}]

\* collate/mseed2sac.py:69-79
mseed2sac_path(stats) ==
    build_destination_path(
        [network |-> stats.network, station |-> stats.station, year |-> stats.year,
         julday |-> stats.julday, location |-> stats.location,
         channel |-> stats.channel, data_quality |-> stats.data_quality,
         dest_base |-> "dest", suffix |-> ".sac"])

\* mseed2sac.py:80-97: year = str(starttime.year), day = f"{julday:03d}", and
\* starttime.strftime("%H%M%S") in the name
module_mseed2sac_path(stats) ==
    LET year == Digits(stats.year)
        day == format_0d(stats.julday, 3)
    IN [dir_path |-> [base |-> "dest", network |-> stats.network,
                      station |-> stats.station, year |-> year, day |-> day],
        filename |-> [network |-> stats.network, station |-> stats.station,
                      location |-> stats.location, channel |-> stats.channel,
                      data_quality |-> stats.data_quality, year |-> year,
                      day |-> day, time |-> stats.time, suffix |-> ".sac"]]

dest_path_of(impl, stats) ==
    IF impl = "collate" THEN mseed2sac_path(stats) ELSE module_mseed2sac_path(stats)

InitConvert ==
    /\ NoRun
    /\ \E impl \in {"collate", "module"}, a \in ConvertStats, b \in ConvertStats :
          /\ a # b
          /\ fn = [op |-> "mseed2sac", impl |-> impl, sources |-> <<a, b>>,
                   done |-> {}, dest |-> <<>>]

\* One worker converts one source file: trace.write(str(dest_path), format="SAC")
mseed2sac_write ==
    /\ fn.op = "mseed2sac"
    /\ \E k \in DOMAIN fn.sources \ fn.done :
          fn' = [fn EXCEPT !.done = @ \cup {k},
                           !.dest = Put(@, dest_path_of(fn.impl, fn.sources[k]), k)]
    /\ UNCHANGED runvars

SpecConvert == InitConvert /\ [][mseed2sac_write]_vars

\* C35: when two distinct source files have been converted, the destination
\* tree holds the output of each of them: neither was written over by the
\* other, in whatever order the workers wrote.
C35_DistinctDestinations ==
    fn.op = "mseed2sac" =>
        \A k \in fn.done : \E p \in DOMAIN fn.dest : fn.dest[p] = k

----------------------------------------------------------------------------
\* cut_events_bin: the station workers and their scratch files in the
\* working directory.  fn holds the position of each worker and the scratch
\* files: for each name, the worker whose data the file holds.

MaxStations == 3

\* Every worker is given the same id.
enumerate_same(w) == 0

\* for id, sta_path in enumerate(station_paths): the w-th station gets w - 1
enumerate_id(w) == w - 1

\* Path(f"data_z.lst_{id}"), Path(f"data_z.db_{id}"), Path(f"done_z.lst_{id}")
scratch(base, id) == [base |-> base, id |-> Digits(id)]

lst(w) == scratch("data_z.lst", enumerate_id(w))
db(w) == scratch("data_z.db", enumerate_id(w))
done_lst(w) == scratch("done_z.lst", enumerate_id(w))

InitCut ==
    /\ NoRun
    /\ \E n \in 1..MaxStations :
          fn = [op |-> "cut_events_bin", at |-> [w \in 1..n |-> "open"],
                cwd |-> <<>>, used |-> [w \in 1..n |-> {}]]

\* A worker moves on.
cut_step(w, at, cwd, used) ==
    fn' = [fn EXCEPT !.at[w] = at, !.cwd = cwd, !.used[w] = @ \cup used]

\* with lst.open("w") as f: one line per sac file of the station
cut_write_list(w) ==
    /\ fn.at[w] = "open"
    /\ cut_step(w, "mktraceiodb", Put(fn.cwd, lst(w), w), {})

\* mktraceiodb -L done_lst -O db -LIST lst: reads the list, writes the other two
cut_mktraceiodb(w) ==
    /\ fn.at[w] = "mktraceiodb"
    /\ IF lst(w) \in DOMAIN fn.cwd
       THEN cut_step(w, "cutevent",
                     Put(Put(fn.cwd, db(w), fn.cwd[lst(w)]), done_lst(w), fn.cwd[lst(w)]),
                     {fn.cwd[lst(w)]})
       ELSE cut_step(w, "cutevent", fn.cwd, {0})          \* the tool finds no list

\* cutevent -tbl db: cuts the events out of the files the table names
cut_cutevent(w) ==
    /\ fn.at[w] = "cutevent"
    /\ cut_step(w, "unlink lst", fn.cwd,
                IF db(w) \in DOMAIN fn.cwd THEN {fn.cwd[db(w)]} ELSE {0})

\* lst.unlink(); db.unlink(); done_lst.unlink(): each raises FileNotFoundError
\* when the file is not there
cut_unlink(w) ==
    /\ fn.at[w] \in {"unlink lst", "unlink db", "unlink done_lst"}
    /\ LET name == CASE fn.at[w] = "unlink lst" -> lst(w)
                     [] fn.at[w] = "unlink db" -> db(w)
                     [] OTHER -> done_lst(w)
           next == CASE fn.at[w] = "unlink lst" -> "unlink db"
                     [] fn.at[w] = "unlink db" -> "unlink done_lst"
                     [] OTHER -> "returned"
       IN IF name \in DOMAIN fn.cwd
          THEN cut_step(w, next, Unlink(fn.cwd, {name}), {})
          ELSE cut_step(w, "FileNotFoundError", fn.cwd, {})

cut_events_per_station ==
    /\ fn.op = "cut_events_bin"
    /\ \E w \in DOMAIN fn.at :
          \/ cut_write_list(w)
          \/ cut_mktraceiodb(w)
          \/ cut_cutevent(w)
          \/ cut_unlink(w)
    /\ UNCHANGED runvars

SpecCut == InitCut /\ [][cut_events_per_station]_vars

\* C36: under every interleaving of the station workers, the scratch files
\* of two workers have different names, a worker's tools read only what that
\* worker wrote, every scratch file in the working directory holds the data
\* of the worker it is named for, and no worker finds one of its files gone.
C36_ScratchFilesApart ==
    fn.op = "cut_events_bin" =>
        /\ \A v \in DOMAIN fn.at, w \in DOMAIN fn.at :
              v # w => {lst(v), db(v), done_lst(v)} \cap {lst(w), db(w), done_lst(w)} = {}
        /\ \A w \in DOMAIN fn.at :
              /\ fn.used[w] \subseteq {w}
              /\ fn.at[w] # "FileNotFoundError"
              /\ \A name \in {lst(w), db(w), done_lst(w)} :
                    name \in DOMAIN fn.cwd => fn.cwd[name] = w

\* Three workers at once, each with its tables written, none returned.
C36_Witness ==
    /\ fn.op = "cut_events_bin"
    /\ Len(fn.at) = 3
    /\ \A w \in DOMAIN fn.at : fn.at[w] = "unlink lst" /\ fn.used[w] = {w}
    /\ Cardinality(DOMAIN fn.cwd) = 9

----------------------------------------------------------------------------
\* C37: with method "sac" and the tool started, what a unit returns does not
\* depend on what the tool did with the unit's files: sac_deconv returns
\* "success" and sac_resample_by_station returns (number of files, 0), and
\* when the run has returned its summary counts no failed unit or file.
C37_SacNeverReportsFailure ==
    (/\ cfg.stage \in {"deconvolution_last_subdirs", "resample_by_station"}
     /\ cfg.method = "sac"
     /\ cfg.tool) =>
        /\ \A t \in DOMAIN futures :
              futures[t].st = "done" =>
                  /\ ~futures[t].res.raised
                  /\ futures[t].res.val =
                        IF cfg.stage = "resample_by_station"
                        THEN <<Len(futures[t].files), 0>> ELSE "success"
        /\ pc = "returned" =>
              IF cfg.stage = "resample_by_station" THEN summary.failed = 0
              ELSE summary.postfix["failed"] = 0

\* A sac run has returned although the tool could process no file of a unit.
C37_Witness ==
    /\ cfg.stage \in {"deconvolution_last_subdirs", "resample_by_station"}
    /\ cfg.method = "sac"
    /\ cfg.tool
    /\ pc = "returned"
    /\ \E t \in DOMAIN futures :
          /\ futures[t].files # <<>>
          /\ \A f \in FilesOf(t) : fault[f] # "ok"

----------------------------------------------------------------------------
\* _process_station_drift_correction on its own: one station, its files in
\* the order rglob lists them.  fn holds the station's drift record, for each
\* file whether obspy can read it and the start time of its first trace, the
\* position of the loop, processed_count, and the file system: the content of
\* every path under src_dir and dest_dir.

DriftTimes == 0..4

\* The rows of the drift table: starttime <= endtime
DriftRecords ==
    {r \in [starttime : 1..3, endtime : 1..3] : r.starttime <= r.endtime}

\* The files of the station: file k is src_dir/STA/<k>.sac
DriftFiles == UNION {[1..n -> [readable : BOOLEAN, starttime : DriftTimes]] : n \in 1..MaxFiles}

original_file(k) == <<"src_dir", "STA", k>>

InitDrift ==
    /\ NoRun
    /\ \E station_drift \in DriftRecords, files \in DriftFiles :
          fn = [op |-> "drift", station_drift |-> station_drift, files |-> files,
                i |-> 1, processed_count |-> 0, st |-> "loop", errors |-> 0,
                fs |-> [p \in {original_file(k) : k \in DOMAIN files} |->
                           [starttime |-> files[p[3]].starttime, corrected |-> FALSE]]]

\* A range check that leaves out the two ends.
in_range_open(sac_time, station_drift) ==
    station_drift.starttime < sac_time /\ sac_time < station_drift.endtime

\* station_drift["starttime"] <= sac_time <= station_drift["endtime"]
in_range(sac_time, station_drift) ==
    station_drift.starttime <= sac_time /\ sac_time <= station_drift.endtime

\* relative_path = original_file.relative_to(src_path);
\* dest_path / relative_path.parent / original_file.name
target_file(file) == <<"dest_dir">> \o Tail(file)

\* _apply_drift_correction: the start time of the trace is shifted
apply_drift_correction(st, station_drift) == [st EXCEPT !.corrected = TRUE]

\* The body of the loop for the file at the loop's position
drift_file ==
    /\ fn.op = "drift"
    /\ fn.st = "loop"
    /\ fn.i <= Len(fn.files)
    /\ LET sac_file == original_file(fn.i)
           st == fn.fs[sac_file]
       IN fn' = IF ~fn.files[fn.i].readable                  \* obspy.read raises
                THEN [fn EXCEPT !.errors = @ + 1, !.i = @ + 1]
                ELSE IF ~in_range(st.starttime, fn.station_drift)
                THEN [fn EXCEPT !.i = @ + 1]                 \* continue
                ELSE [fn EXCEPT !.fs = Put(@, target_file(sac_file),
                                           apply_drift_correction(st, fn.station_drift)),
                                !.processed_count = @ + 1, !.i = @ + 1]
    /\ UNCHANGED runvars

\* logger.info(f"{station_name} complete, total {processed_count} files processed.")
drift_return ==
    /\ fn.op = "drift"
    /\ fn.st = "loop"
    /\ fn.i > Len(fn.files)
    /\ fn' = [fn EXCEPT !.st = "returned"]
    /\ UNCHANGED runvars

NextDrift ==
    \/ drift_file
    \/ drift_return

SpecDrift == InitDrift /\ [][NextDrift]_vars

\* The files the loop is through with, that were read and whose start time is
\* in [starttime, endtime], both ends included.
DriftDue ==
    {k \in 1..(fn.i - 1) :
        /\ fn.files[k].readable
        /\ fn.station_drift.starttime <= fn.files[k].starttime
        /\ fn.files[k].starttime <= fn.station_drift.endtime}

----------------------------------------------------------------------------
\* format_head: the event directories under the source root, the events
\* table, the task list, the pool and the destination root.  fn holds the
\* directories not yet looked up, the tasks prepared and submitted, and the
\* event directories that exist under the destination root.

EventDirs == {"20240101000000", "20240102000000", "20240103000000"}

InitHead ==
    /\ NoRun
    /\ \E dirs \in SUBSET EventDirs, events_dict \in SUBSET EventDirs :
          fn = [op |-> "format_head", dirs |-> dirs, events_dict |-> events_dict,
                todo |-> dirs, event_tasks |-> {}, submitted |-> {}, dest |-> {},
                st |-> "prepare"]

\* A lookup that finds an entry for every directory.
event_info_any(events_dict, event_dir) == TRUE

\* event_info = events_dict.get(event_dir); if not event_info: raise ValueError
event_info(events_dict, event_dir) == event_dir \in events_dict

\* for event_dir in [d.name for d in src_path.iterdir() if d.is_dir()]: one
\* directory, in the order iterdir gives
head_prepare ==
    /\ fn.op = "format_head"
    /\ fn.st = "prepare"
    /\ \/ \E event_dir \in fn.todo :
            fn' = IF event_info(fn.events_dict, event_dir)
                  THEN [fn EXCEPT !.todo = @ \ {event_dir},
                                  !.event_tasks = @ \cup {event_dir}]
                  ELSE [fn EXCEPT !.st = "ValueError"]
       \/ /\ fn.todo = {}
          /\ fn' = [fn EXCEPT !.st = "pool"]
    /\ UNCHANGED runvars

\* futures = {executor.submit(processor, task): task for task in event_tasks}
head_submit ==
    /\ fn.op = "format_head"
    /\ fn.st = "pool"
    /\ \E task \in fn.event_tasks \ fn.submitted :
          fn' = [fn EXCEPT !.submitted = @ \cup {task}]
    /\ UNCHANGED runvars

\* format_per_event in a worker: dest_event_dir.mkdir(parents=True, exist_ok=True)
head_worker ==
    /\ fn.op = "format_head"
    /\ \E task \in fn.submitted \ fn.dest :
          fn' = [fn EXCEPT !.dest = @ \cup {task}]
    /\ UNCHANGED runvars

\* The pool is left when every task has run.
head_return ==
    /\ fn.op = "format_head"
    /\ fn.st = "pool"
    /\ fn.submitted = fn.event_tasks
    /\ fn.dest = fn.submitted
    /\ fn' = [fn EXCEPT !.st = "returned"]
    /\ UNCHANGED runvars

NextHead ==
    \/ head_prepare
    \/ head_submit
    \/ head_worker
    \/ head_return

SpecHead == InitHead /\ [][NextHead]_vars /\ WF_vars(NextHead)

\* C39: when an event directory under the source root has no entry in the
\* events table, format_head submits nothing and creates nothing under the
\* destination root at any time, never gets to the pool, and ends by raising
\* ValueError.
C39_MissingEventAborts ==
    (fn.op = "format_head" /\ fn.dirs \ fn.events_dict # {}) =>
        /\ fn.submitted = {}
        /\ fn.dest = {}
        /\ fn.st \in {"prepare", "ValueError"}

\* The run with a missing entry does end, with the error.
C39_Aborts ==
    (fn.op = "format_head" /\ fn.dirs \ fn.events_dict # {}) ~> fn.st = "ValueError"

\* The error was raised after two directories with an entry had been looked up.
C39_Witness ==
    /\ fn.op = "format_head"
    /\ fn.st = "ValueError"
    /\ Cardinality(fn.event_tasks) = 2

====
